---- MODULE Spec2Model ----
(***************************************************************************)
(* Daila: a terminal tracker of daily activities.  The model covers the    *)
(* two stores (activites.rs), their persistence (file.rs), the selector    *)
(* state (activity_selector.rs), the two popups (activity_popup.rs,        *)
(* confirmation_popup.rs), the session loop of daila.rs and the loop of    *)
(* main.rs.                                                                *)
(***************************************************************************)
EXTENDS Integers, Sequences, FiniteSets, TLC

VARIABLES
    activity_types,           \* Daila.activity_types : ActivityTypesStore
    activities,               \* Daila.activities : ActivitiesStore
    active_date,              \* Daila.active_date (a day number)
    activity_selector_state,  \* Daila.activity_selector_state
    running,                  \* Daila.running / main.rs `running`
    state,                    \* Daila.state : DailaState
    refresh,                  \* Daila.refresh
    types_file,               \* activity_types.json on disk
    activities_file,          \* activities.json on disk
    pc,                       \* where the process is: start, constructed, loop, done, panicked
    events,                   \* number of input events read so far
    terminal,                 \* raw mode, alternate screen and frame size of the terminal
    heatmap,                  \* the HeatMap widget of the frame being drawn
    buffer,                   \* what the last frame wrote
    keys                      \* keys read by the popup since it opened

vars == <<activity_types, activities, active_date, activity_selector_state, running,
          state, refresh, types_file, activities_file, pc, events,
          terminal, heatmap, buffer, keys>>

(***************************************************************************)
(* Bounds of the model.                                                    *)
(***************************************************************************)
\* Input events read in one run of a loop.
MaxEvents == 5
\* Characters typed into the text input of the editor popup.
MaxNameLen == 1
\* Records in one day of a Log saved by FileSpec (one more in LogSpec).
MaxDayLen == 2
\* Largest number of types in a Registry explored by RegistrySpec.
MaxTypes == 4
\* Largest number of items of a selector explored by SelectorSpec.
MaxItems == 9

\* Largest x and y of the origin of the area a heat-map is rendered into.
MaxAreaX == 2
MaxAreaY == 1

(***************************************************************************)
(* Option<T>: None is the empty sequence, Some(x) the one-element one.     *)
(***************************************************************************)
None == <<>>
Some(x) == <<x>>
IsSome(o) == o # <<>>
Unwrap(o) == o[1]

(***************************************************************************)
(* BTreeMap<K, V> as a function with a finite domain of integers.          *)
(***************************************************************************)
EmptyMap == [k \in {} |-> k]
MapInsert(m, k, v) == [x \in DOMAIN m \cup {k} |-> IF x = k THEN v ELSE m[x]]
MapRemove(m, k) == [x \in DOMAIN m \ {k} |-> m[x]]

RECURSIVE SortedSeq(_)
\* The elements of a finite set of integers in ascending order: the order in
\* which a BTreeMap iterates over its keys.
SortedSeq(S) ==
    IF S = {} THEN <<>>
    ELSE LET m == CHOOSE x \in S : \A y \in S : x <= y
         IN  <<m>> \o SortedSeq(S \ {m})

\* BTreeMap::values(): the values in ascending key order.
MapValues(m) == LET ks == SortedSeq(DOMAIN m) IN [i \in 1..Len(ks) |-> m[ks[i]]]

(***************************************************************************)
(* CalendarDate = chrono::NaiveDate.  A date is its day number (days since *)
(* 1970-01-01); the civil (year, month, day) form is computed from it.     *)
(***************************************************************************)
\* The day `chrono::Local::now().date_naive()` returns: 2024-02-29.
Today == 19782

\* Floor division: TLA+'s \div rounds toward minus infinity already.
CivilFromDays(z0) ==
    LET z   == z0 + 719468
        era == z \div 146097
        doe == z - era * 146097
        yoe == (doe - doe \div 1460 + doe \div 36524 - doe \div 146096) \div 365
        doy == doe - (365 * yoe + yoe \div 4 - yoe \div 100)
        mp  == (5 * doy + 2) \div 153
        d   == doy - (153 * mp + 2) \div 5 + 1
        m   == IF mp < 10 THEN mp + 3 ELSE mp - 9
        y   == yoe + era * 400 + (IF m <= 2 THEN 1 ELSE 0)
    IN  [year |-> y, month |-> m, day |-> d]

DaysFromCivil(c) ==
    LET y   == IF c.month <= 2 THEN c.year - 1 ELSE c.year
        era == y \div 400
        yoe == y - era * 400
        mp  == IF c.month > 2 THEN c.month - 3 ELSE c.month + 9
        doy == (153 * mp + 2) \div 5 + c.day - 1
        doe == yoe * 365 + yoe \div 4 - yoe \div 100 + doy
    IN  era * 146097 + doe - 719468

\* NaiveDate::pred_opt / succ_opt (the unwrap fails only at the ends of
\* chrono's range, which no run reaches).
pred_opt(date) == Some(date - 1)
succ_opt(date) == Some(date + 1)

(***************************************************************************)
(* activites.rs: the Registry (ActivityTypesStore).                        *)
(***************************************************************************)
ActivityType_new(id, name) == [id |-> id, name |-> name]

\* #[derive(Default)]
ActivityTypesStore_default == [types |-> EmptyMap]

\* A wrong allocation: the number of types taken as the next id.
next_unused_id_is_len(store) == Cardinality(DOMAIN store.types)

RECURSIVE next_unused_from(_, _)
\* The loop of next_unused_id, started at `id`.
next_unused_from(store, id) ==
    IF id \in DOMAIN store.types THEN next_unused_from(store, id + 1) ELSE id

next_unused_id(store) == next_unused_from(store, 0)

\* create_new_activity: the store afterwards and the id returned.
create_new_activity(store, name) ==
    LET id == next_unused_id(store)
        activity_type == ActivityType_new(id, name)
    IN  [store |-> [store EXCEPT
                      !.types = MapInsert(store.types, activity_type.id, activity_type)],
         id    |-> id]

\* activity_type(id): Option<&ActivityType>
activity_type(store, id) ==
    IF id \in DOMAIN store.types THEN Some(store.types[id]) ELSE None

\* activity_types(): the types in ascending key order.
activity_types_list(store) == MapValues(store.types)

\* len(): the number of types (not in activites.rs; from the spec's count()).
ActivityTypesStore_len(store) == Cardinality(DOMAIN store.types)

\* update_activity(id, name) (not in activites.rs; the spec's rename: replace
\* the name, silently nothing if the id is absent).
update_activity(store, id, name) ==
    IF id \in DOMAIN store.types
    THEN [store EXCEPT !.types[id].name = name]
    ELSE store

\* delete_activity_type(id) (not in activites.rs; the spec's delete: remove
\* the entry, the Log is not touched).
delete_activity_type(store, id) == [store EXCEPT !.types = MapRemove(store.types, id)]

(***************************************************************************)
(* activites.rs: the Log (ActivitiesStore).                                *)
(***************************************************************************)
Activity_new(activity_id, date) == [activity_id |-> activity_id, date |-> date]

ActivitiesStore_default == [days |-> EmptyMap]

\* A wrong add: the day is created but the record is not pushed.
add_activity_no_push(store, activity) ==
    LET date == activity.date
        old  == IF date \in DOMAIN store.days THEN store.days[date] ELSE <<>>
    IN  [store EXCEPT !.days = MapInsert(store.days, date, old)]

\* add_activity: push onto the day's Vec, created when missing.
add_activity(store, activity) ==
    LET date == activity.date
        old  == IF date \in DOMAIN store.days THEN store.days[date] ELSE <<>>
    IN  [store EXCEPT !.days = MapInsert(store.days, date, Append(old, activity))]

\* remove_activity unwraps days.get_mut(date): it panics when the day is missing.
remove_activity_panics(store, activity) == activity.date \notin DOMAIN store.days

\* A wrong remove: only the first matching entry of the day is removed.
remove_activity_first(store, activity) ==
    LET day == store.days[activity.date]
        hit == {i \in 1..Len(day) : day[i].activity_id = activity.activity_id}
        first == CHOOSE i \in hit : \A j \in hit : i <= j
    IN  IF hit = {} THEN store
        ELSE [store EXCEPT !.days[activity.date] =
                              SubSeq(day, 1, first - 1) \o SubSeq(day, first + 1, Len(day))]

\* remove_activity: retain the entries of the day with another activity id.
remove_activity(store, activity) ==
    LET kept == SelectSeq(store.days[activity.date],
                          LAMBDA a : a.activity_id # activity.activity_id)
    IN  [store EXCEPT !.days[activity.date] = kept]

\* A wrong completion test: only the first record of the day is looked at.
activity_completed_first_only(store, date, atype) ==
    LET day == IF date \in DOMAIN store.days THEN store.days[date] ELSE <<>>
    IN  day # <<>> /\ day[1].activity_id = atype.id

\* activity_completed(date, activity_type)
activity_completed(store, date, atype) ==
    LET day == IF date \in DOMAIN store.days THEN store.days[date] ELSE <<>>
    IN  \E i \in 1..Len(day) : day[i].activity_id = atype.id

RECURSIVE Flatten(_)
Flatten(seqs) == IF seqs = <<>> THEN <<>> ELSE Head(seqs) \o Flatten(Tail(seqs))

\* activities(): every record, day by day in ascending date order.
activities_all(store) == Flatten(MapValues(store.days))

\* activities_with_type(activity_type)
activities_with_type(store, atype) ==
    SelectSeq(activities_all(store), LAMBDA a : a.activity_id = atype.id)

ActivityOption_new(atype, completed) == [activity_type |-> atype, completed |-> completed]

RECURSIVE InsertById_descending(_, _)
\* A wrong comparator: the larger id first.
InsertById_descending(sorted, o) ==
    IF sorted = <<>> THEN <<o>>
    ELSE IF Head(sorted).activity_type.id >= o.activity_type.id
         THEN <<Head(sorted)>> \o InsertById_descending(Tail(sorted), o)
         ELSE <<o>> \o sorted

RECURSIVE InsertById(_, _)
\* Insert `o` into a sequence sorted by activity id, after the entries with an
\* id that is not larger (sort_by is stable).
InsertById(sorted, o) ==
    IF sorted = <<>> THEN <<o>>
    ELSE IF Head(sorted).activity_type.id <= o.activity_type.id
         THEN <<Head(sorted)>> \o InsertById(Tail(sorted), o)
         ELSE <<o>> \o sorted

RECURSIVE SortById(_)
SortById(options) ==
    IF options = <<>> THEN <<>>
    ELSE InsertById(SortById(SubSeq(options, 1, Len(options) - 1)), options[Len(options)])

\* activity_options(activity_types, activities, date)
activity_options(tstore, astore, date) ==
    LET list    == activity_types_list(tstore)
        options == [i \in 1..Len(list) |->
                      ActivityOption_new(list[i], activity_completed(astore, date, list[i]))]
    IN  SortById(options)

(***************************************************************************)
(* The JSON documents (serde_json over the derived Serialize/Deserialize). *)
(* A document is the sequence of the members of its object, in the order   *)
(* written; numbers and dates are written out as characters.               *)
(***************************************************************************)
Digits == <<"0", "1", "2", "3", "4", "5", "6", "7", "8", "9">>
DigitChar(n) == Digits[n + 1]
DigitValue(c) == CHOOSE n \in 0..9 : Digits[n + 1] = c

RECURSIVE ToDecimal(_)
\* An unsigned integer in decimal, no leading zeros.
ToDecimal(n) ==
    IF n < 10 THEN <<DigitChar(n)>>
    ELSE Append(ToDecimal(n \div 10), DigitChar(n % 10))

RECURSIVE FromDecimal(_)
FromDecimal(s) ==
    IF s = <<>> THEN 0
    ELSE 10 * FromDecimal(SubSeq(s, 1, Len(s) - 1)) + DigitValue(s[Len(s)])

\* A number padded with zeros on the left to `width` characters.
RECURSIVE ZeroPad(_, _)
ZeroPad(s, width) == IF Len(s) >= width THEN s ELSE ZeroPad(<<"0">> \o s, width)

\* NaiveDate is written as "YYYY-MM-DD".
FormatDate(date) ==
    LET c == CivilFromDays(date)
    IN  ZeroPad(ToDecimal(c.year), 4) \o <<"-">> \o ZeroPad(ToDecimal(c.month), 2)
          \o <<"-">> \o ZeroPad(ToDecimal(c.day), 2)

ParseDate(s) ==
    DaysFromCivil([year  |-> FromDecimal(SubSeq(s, 1, 4)),
                   month |-> FromDecimal(SubSeq(s, 6, 7)),
                   day   |-> FromDecimal(SubSeq(s, 9, 10))])

\* serde_json::to_writer of an ActivityTypesStore: the members of `types`
\* in key order, each key a decimal string.
to_writer_types(store) ==
    LET ks == SortedSeq(DOMAIN store.types)
    IN  [i \in 1..Len(ks) |->
            [key   |-> ToDecimal(ks[i]),
             value |-> [id   |-> ToDecimal(store.types[ks[i]].id),
                        name |-> store.types[ks[i]].name]]]

RECURSIVE from_reader_types_map(_)
from_reader_types_map(doc) ==
    IF doc = <<>> THEN EmptyMap
    ELSE LET last == doc[Len(doc)]
         IN  MapInsert(from_reader_types_map(SubSeq(doc, 1, Len(doc) - 1)),
                       FromDecimal(last.key),
                       [id |-> FromDecimal(last.value.id), name |-> last.value.name])

\* serde_json::from_reader into an ActivityTypesStore.
from_reader_types(doc) == [types |-> from_reader_types_map(doc)]

\* serde_json::to_writer of an ActivitiesStore: the members of `days` in
\* date order, each a date string and the array of the day's records.
to_writer_activities(store) ==
    LET ks == SortedSeq(DOMAIN store.days)
    IN  [i \in 1..Len(ks) |->
            [key   |-> FormatDate(ks[i]),
             value |-> [j \in 1..Len(store.days[ks[i]]) |->
                          [activity_id |-> ToDecimal(store.days[ks[i]][j].activity_id),
                           date        |-> FormatDate(store.days[ks[i]][j].date)]]]]

RECURSIVE from_reader_activities_map(_)
from_reader_activities_map(doc) ==
    IF doc = <<>> THEN EmptyMap
    ELSE LET last == doc[Len(doc)]
         IN  MapInsert(from_reader_activities_map(SubSeq(doc, 1, Len(doc) - 1)),
                       ParseDate(last.key),
                       [j \in 1..Len(last.value) |->
                          [activity_id |-> FromDecimal(last.value[j].activity_id),
                           date        |-> ParseDate(last.value[j].date)]])

\* A wrong load: the days without records are dropped.
from_reader_activities_drop_empty(doc) ==
    LET m == from_reader_activities_map(doc)
    IN  [days |-> [d \in {x \in DOMAIN m : m[x] # <<>>} |-> m[d]]]

\* serde_json::from_reader into an ActivitiesStore.
from_reader_activities(doc) == [days |-> from_reader_activities_map(doc)]

(***************************************************************************)
(* file.rs: a file on disk is absent, or exists with a mode ("rw", "ro":   *)
(* cannot be opened for writing, "wo": cannot be opened for reading) and a *)
(* content that is a valid document or not.                                *)
(***************************************************************************)
AbsentFile == [exists |-> FALSE, mode |-> "rw", valid |-> FALSE, doc |-> <<>>]
ValidFile(doc, mode) == [exists |-> TRUE, mode |-> mode, valid |-> TRUE, doc |-> doc]
CorruptFile == [exists |-> TRUE, mode |-> "rw", valid |-> FALSE, doc |-> <<>>]

\* std::fs::File::open(path) succeeds.
File_open_ok(file) == file.exists /\ file.mode # "wo"

\* File::load for ActivityTypesStore: the default when the file cannot be
\* opened, a panic (the unwrap) when it does not parse.
load_types(file) ==
    IF ~File_open_ok(file) THEN [ok |-> TRUE, value |-> ActivityTypesStore_default]
    ELSE IF ~file.valid THEN [ok |-> FALSE, value |-> ActivityTypesStore_default]
    ELSE [ok |-> TRUE, value |-> from_reader_types(file.doc)]

\* File::load for ActivitiesStore.
load_activities(file) ==
    IF ~File_open_ok(file) THEN [ok |-> TRUE, value |-> ActivitiesStore_default]
    ELSE IF ~file.valid THEN [ok |-> FALSE, value |-> ActivitiesStore_default]
    ELSE [ok |-> TRUE, value |-> from_reader_activities(file.doc)]

\* File::save: File::create truncates an existing file; a missing file or
\* directory is created by create_file; any other error panics.
File_save(file, doc) ==
    IF file.exists /\ file.mode = "ro" THEN [ok |-> FALSE, file |-> file]
    ELSE [ok |-> TRUE,
          file |-> [exists |-> TRUE,
                    mode   |-> IF file.exists THEN file.mode ELSE "rw",
                    valid  |-> TRUE,
                    doc    |-> doc]]

save_types(file, store) == File_save(file, to_writer_types(store))
save_activities(file, store) == File_save(file, to_writer_activities(store))

(***************************************************************************)
(* activity_selector.rs: ActivitySelectorState.                            *)
(***************************************************************************)
ACTIVITIES_PER_ROW == 3

\* A wrong constructor: the last item is selected, not the first.
ActivitySelectorState_new_last(activity_count) ==
    [activity_count |-> activity_count,
     selected_index |-> IF activity_count = 0 THEN None ELSE Some(activity_count - 1)]

ActivitySelectorState_new(activity_count) ==
    [activity_count |-> activity_count,
     selected_index |-> IF activity_count = 0 THEN None ELSE Some(0)]

\* A wrong move: no wrap at the end of the list.
select_right_no_wrap(s) ==
    IF IsSome(s.selected_index)
    THEN [s EXCEPT !.selected_index = Some(Unwrap(@) + 1)]
    ELSE s

select_right(s) ==
    IF IsSome(s.selected_index)
    THEN [s EXCEPT !.selected_index = Some((Unwrap(@) + 1) % s.activity_count)]
    ELSE s

select_left(s) ==
    IF IsSome(s.selected_index)
    THEN [s EXCEPT !.selected_index =
                     Some((Unwrap(@) + s.activity_count - 1) % s.activity_count)]
    ELSE s

select_up(s) ==
    IF IsSome(s.selected_index) /\ Unwrap(s.selected_index) >= ACTIVITIES_PER_ROW
    THEN [s EXCEPT !.selected_index = Some(Unwrap(@) - ACTIVITIES_PER_ROW)]
    ELSE s

\* A wrong bound: the move down is allowed onto the index one past the end.
select_down_inclusive(s) ==
    IF IsSome(s.selected_index)
       /\ Unwrap(s.selected_index) + ACTIVITIES_PER_ROW <= s.activity_count
    THEN [s EXCEPT !.selected_index = Some(Unwrap(@) + ACTIVITIES_PER_ROW)]
    ELSE s

select_down(s) ==
    IF IsSome(s.selected_index)
       /\ Unwrap(s.selected_index) + ACTIVITIES_PER_ROW < s.activity_count
    THEN [s EXCEPT !.selected_index = Some(Unwrap(@) + ACTIVITIES_PER_ROW)]
    ELSE s

(***************************************************************************)
(* Input events.  A key event is <<code>> or <<"Char", c>>; <<"Resize">>   *)
(* stands for the events that are no key event.                            *)
(***************************************************************************)
KeyChars == {"f", "F", "r", "s", "q", "c", "e", "d", "a", "x"}
ArrowKeys == {<<"Left">>, <<"Right">>, <<"Up">>, <<"Down">>}
InputEvents ==
    ArrowKeys \cup {<<"Enter">>, <<"Backspace">>, <<"Esc">>, <<"Resize">>}
      \cup {<<"Char", c>> : c \in KeyChars}

\* DailaEvent::from_event / from_keycode
from_keycode(code) ==
    CASE code = <<"Char", "f">> -> Some("GotoNextDay")
      [] code = <<"Char", "F">> -> Some("GotoPreviousDay")
      [] code = <<"Char", "r">> -> Some("GotoToday")
      [] code = <<"Right">>     -> Some("ActivityRight")
      [] code = <<"Left">>      -> Some("ActivityLeft")
      [] code = <<"Up">>        -> Some("ActivityUp")
      [] code = <<"Down">>      -> Some("ActivityDown")
      [] code = <<"Char", "s">> -> Some("SaveAndQuit")
      [] code = <<"Char", "q">> -> Some("QuitWithoutSaving")
      [] code = <<"Char", "c">> -> Some("CreateNewActivity")
      [] code = <<"Char", "e">> -> Some("EditSelectedActivity")
      [] code = <<"Char", "d">> -> Some("DeleteSelectedActivity")
      [] code = <<"Char", "a">> -> Some("ToggleSelectedActivity")
      [] OTHER                  -> None

from_event(event) == IF event = <<"Resize">> THEN None ELSE from_keycode(event)

(***************************************************************************)
(* activity_popup.rs: the editor / creator popup.                          *)
(***************************************************************************)
\* CursorPosition::next(self, last_position, direction)
\* A wrong cursor: Left does not leave the create / edit button.
ActivityCursor_next_no_left(self, last_position, direction) ==
    CASE self = "TextInput" ->
           IF direction = <<"Down">>
           THEN IF IsSome(last_position) /\ Unwrap(last_position) # "TextInput"
                THEN Unwrap(last_position)
                ELSE "ExitButton"
           ELSE "TextInput"
      [] self = "CreateOrEditButton" ->
           IF direction = <<"Up">> THEN "TextInput" ELSE "CreateOrEditButton"
      [] self = "ExitButton" ->
           IF direction = <<"Up">> THEN "TextInput"
           ELSE IF direction = <<"Right">> THEN "CreateOrEditButton"
           ELSE "ExitButton"

ActivityCursor_next(self, last_position, direction) ==
    CASE self = "TextInput" ->
           IF direction = <<"Down">>
           THEN IF IsSome(last_position) /\ Unwrap(last_position) # "TextInput"
                THEN Unwrap(last_position)
                ELSE "ExitButton"
           ELSE "TextInput"
      [] self = "CreateOrEditButton" ->
           IF direction = <<"Up">> THEN "TextInput"
           ELSE IF direction = <<"Left">> THEN "ExitButton"
           ELSE "CreateOrEditButton"
      [] self = "ExitButton" ->
           IF direction = <<"Up">> THEN "TextInput"
           ELSE IF direction = <<"Right">> THEN "CreateOrEditButton"
           ELSE "ExitButton"

\* A wrong editor: it is opened without the id of the type.
ActivityPopupState_new_editor_without_id(activity_title, activity_id) ==
    [last_cursor_position |-> None,
     cursor_position      |-> "TextInput",
     text_input           |-> activity_title,
     popup_type           |-> "Edit",
     activity_id          |-> None]

ActivityPopupState_new_editor(activity_title, activity_id) ==
    [last_cursor_position |-> None,
     cursor_position      |-> "TextInput",
     text_input           |-> activity_title,
     popup_type           |-> "Edit",
     activity_id          |-> Some(activity_id)]

ActivityPopupState_new_creator ==
    [last_cursor_position |-> None,
     cursor_position      |-> "TextInput",
     text_input           |-> <<>>,
     popup_type           |-> "Create",
     activity_id          |-> None]

\* String::pop
StringPop(s) == IF s = <<>> THEN s ELSE SubSeq(s, 1, Len(s) - 1)

NoAction == [tag |-> "None"]

\* ActivityPopup::handle_event(event, state): the action returned (NoAction
\* for None) and the popup state afterwards.  `panic` is the unwrap of a
\* missing activity_id.
ActivityPopup_handle_event(event, st) ==
    CASE event = <<"Enter">> ->
           IF st.cursor_position = "TextInput"
           THEN [action |-> NoAction, state |-> st, panic |-> FALSE]
           ELSE IF st.cursor_position = "CreateOrEditButton"
           THEN IF st.popup_type = "Create"
                THEN [action |-> [tag |-> "CreateActivity", title |-> st.text_input],
                      state |-> st, panic |-> FALSE]
                ELSE IF IsSome(st.activity_id)
                THEN [action |-> [tag |-> "EditActivity", id |-> Unwrap(st.activity_id),
                                  title |-> st.text_input],
                      state |-> st, panic |-> FALSE]
                ELSE [action |-> NoAction, state |-> st, panic |-> TRUE]
           ELSE [action |-> [tag |-> "Exit"], state |-> st, panic |-> FALSE]
      [] event \in ArrowKeys ->
           [action |-> NoAction,
            state  |-> [st EXCEPT
                          !.last_cursor_position = Some(st.cursor_position),
                          !.cursor_position =
                              ActivityCursor_next(st.cursor_position,
                                                  st.last_cursor_position, event)],
            panic  |-> FALSE]
      [] Len(event) = 2 /\ st.cursor_position = "TextInput" ->
           [action |-> NoAction,
            state  |-> [st EXCEPT !.text_input = Append(@, event[2])],
            panic  |-> FALSE]
      [] event = <<"Backspace">> ->
           [action |-> NoAction,
            state  |-> [st EXCEPT !.text_input = StringPop(@)],
            panic  |-> FALSE]
      [] OTHER -> [action |-> NoAction, state |-> st, panic |-> FALSE]

(***************************************************************************)
(* confirmation_popup.rs                                                   *)
(***************************************************************************)
\* A wrong cursor: Left and Right both flip the focus.
ConfirmationCursor_next_flips(self, direction) ==
    IF direction \in {<<"Left">>, <<"Right">>}
    THEN IF self = "LeftButton" THEN "RightButton" ELSE "LeftButton"
    ELSE self

ConfirmationCursor_next(self, direction) ==
    CASE self = "LeftButton" ->
           IF direction = <<"Right">> THEN "RightButton" ELSE "LeftButton"
      [] self = "RightButton" ->
           IF direction = <<"Left">> THEN "LeftButton" ELSE "RightButton"

\* A wrong confirmation popup: it opens with the focus on the accept button.
ConfirmationPopupState_new_on_accept(prompt) ==
    [cursor_position |-> "RightButton", prompt |-> prompt]

ConfirmationPopupState_new(prompt) ==
    [cursor_position |-> "LeftButton", prompt |-> prompt]

\* ConfirmationPopup::handle_event(event, state)
ConfirmationPopup_handle_event(event, st) ==
    CASE event \in {<<"Left">>, <<"Right">>} ->
           [action |-> NoAction,
            state  |-> [st EXCEPT !.cursor_position =
                                     ConfirmationCursor_next(@, event)]]
      [] event = <<"Enter">> ->
           IF st.cursor_position = "LeftButton"
           THEN [action |-> [tag |-> "Decline"], state |-> st]
           ELSE [action |-> [tag |-> "Accept"], state |-> st]
      [] OTHER -> [action |-> NoAction, state |-> st]

(***************************************************************************)
(* heatmap.rs: the heat-map widget.  Heat is 0 or 1 (heat_map_value is 1.0 *)
(* for every Activity), colors are their names, and a Rect is tui's        *)
(* (x, y, width, height).                                                  *)
(***************************************************************************)
Rect(x, y, width, height) == [x |-> x, y |-> y, width |-> width, height |-> height]

\* HeatMapDateRange::current_year(): Jan 1 to Dec 31 of today's year.
HeatMapDateRange_current_year ==
    LET year == CivilFromDays(Today).year
    IN  <<DaysFromCivil([year |-> year, month |-> 1, day |-> 1]),
          DaysFromCivil([year |-> year, month |-> 12, day |-> 31])>>

\* HeatMap::default()
HeatMap_default ==
    [date_range  |-> HeatMapDateRange_current_year,
     color_range |-> <<"Black", "Green">>,
     rows        |-> 7,
     values      |-> EmptyMap]

\* HeatMap::values(values): collected into a HashMap keyed by heat_map_date,
\* a later value of the same date replacing an earlier one.
HeatMap_values(self, values) ==
    [self EXCEPT !.values =
        [date \in {values[i].date : i \in DOMAIN values} |->
            values[CHOOSE i \in DOMAIN values :
                      /\ values[i].date = date
                      /\ \A j \in DOMAIN values : values[j].date = date => j <= i]]]

\* heat_at_date: heat_map_value() of the value of the date (1.0 for an
\* Activity), 0.0 without one.
heat_at_date(self, date) == IF date \in DOMAIN self.values THEN 1 ELSE 0

color_from_heat(self, heat) ==
    IF heat = 0 THEN self.color_range[1] ELSE self.color_range[2]

\* position_to_date(x, y, area)
position_to_date(self, x, y, area) ==
    self.date_range[1] + ((x - area.x) \div 2) * self.rows + (y - area.y - 1)

\* date_to_position(date, area): `panic` is the failure of its assertion.
date_to_position(self, date, area) ==
    LET days_from_start == (date - self.date_range[1]) % 65536
        x == area.x + (days_from_start \div self.rows)
        y == area.y + 1 + (days_from_start % self.rows)
    IN  [panic |-> position_to_date(self, 2 * x, y, area) # date,
         x |-> x * 2, y |-> y]

\* draw_date: the cell written for the date.
draw_date(self, date, area) ==
    LET p == date_to_position(self, date, area)
    IN  [x |-> p.x, y |-> p.y, symbol |-> "HALF",
         fg |-> color_from_heat(self, heat_at_date(self, date))]

\* A wrong border: the range is not checked, so a border is also drawn after
\* the last column.
draw_date_month_border_unbounded(self, date, area) ==
    LET p == date_to_position(self, date, area)
        next_col_day == position_to_date(self, p.x + 2, p.y, area)
    IN  IF CivilFromDays(date).month # CivilFromDays(next_col_day).month
        THEN {[x |-> p.x + 1, y |-> p.y, fg |-> "Gray",
               symbol |-> IF p.y = area.y + 1 THEN "TOP" ELSE "VERTICAL"]}
        ELSE {}

\* draw_date_month_border: the cells written for the date (none or one).
draw_date_month_border(self, date, area) ==
    LET p == date_to_position(self, date, area)
        next_col_day == position_to_date(self, p.x + 2, p.y, area)
    IN  IF /\ CivilFromDays(date).month # CivilFromDays(next_col_day).month
           /\ next_col_day <= self.date_range[2]
        THEN {[x |-> p.x + 1, y |-> p.y, fg |-> "Gray",
               symbol |-> IF p.y = area.y + 1 THEN "TOP" ELSE "VERTICAL"]}
        ELSE {}

\* draw_month_labels: the loop walks from the start of the range in steps of
\* `rows` days while date < end and writes the month at the x of the date
\* whenever it differs from last_display_month.
RECURSIVE draw_month_labels_loop(_, _, _, _, _)
draw_month_labels_loop(self, area, date, last_display_month, labels) ==
    IF date < self.date_range[2]
    THEN LET month == CivilFromDays(date).month
         IN  IF last_display_month # month
             THEN draw_month_labels_loop(
                      self, area, date + self.rows, month,
                      labels \cup {[x |-> date_to_position(self, date, area).x,
                                    y |-> area.y, month |-> month]})
             ELSE draw_month_labels_loop(self, area, date + self.rows,
                                         last_display_month, labels)
    ELSE labels

draw_month_labels(self, area) ==
    draw_month_labels_loop(self, area, self.date_range[1], -1, {})

HeatMap_width(self) ==
    (((self.date_range[2] - self.date_range[1]) % 65536) \div self.rows) * 2

HeatMap_height(self) == self.rows

\* render(area, buffer): what the widget writes.  It panics when a size
\* assertion fails or when date_to_position's assertion fails for a date it
\* draws.  Cells, borders and labels never share a position: cells are in
\* even columns below the label row, borders in odd columns.
HeatMap_render(self, area) ==
    LET dates == self.date_range[1]..self.date_range[2]
    IN  IF \/ area.width < HeatMap_width(self)
           \/ area.height < HeatMap_height(self)
           \/ \E d \in dates : date_to_position(self, d, area).panic
        THEN [panic |-> TRUE, cells |-> {}, borders |-> {}, labels |-> {}]
        ELSE [panic   |-> FALSE,
              cells   |-> {draw_date(self, d, area) : d \in dates},
              borders |-> UNION {draw_date_month_border(self, d, area) : d \in dates},
              labels  |-> draw_month_labels(self, area)]

(***************************************************************************)
(* The terminal and what is on it.  `terminal` holds the two modes main    *)
(* acquires and the size of the frame, `heatmap` the widget of the frame   *)
(* being drawn, `buffer` what the frame wrote, `keys` the keys a popup has *)
(* read since it opened.                                                   *)
(***************************************************************************)
display == <<terminal, heatmap, buffer, keys>>

Terminal(raw, alternate, size) == [raw |-> raw, alternate |-> alternate, size |-> size]

Buffer_empty(area) ==
    [area |-> area, panic |-> FALSE, widgets |-> {},
     cells |-> {}, borders |-> {}, labels |-> {}]

\* Inside a session: both modes are on and nothing has been drawn yet.
DisplayIdle ==
    /\ terminal = Terminal(TRUE, TRUE, Rect(0, 0, 120, 40))
    /\ heatmap = HeatMap_default
    /\ buffer = Buffer_empty(terminal.size)
    /\ keys = <<>>

(***************************************************************************)
(* daila.rs: the session.                                                  *)
(***************************************************************************)
Default == [kind |-> "Default"]
InActivityPopup(st) == [kind |-> "ActivityPopup", state |-> st]
InConfirmationPopup(action, st) ==
    [kind |-> "ConfirmationPopup", action |-> action, state |-> st]

\* ConfirmationAction (the variant for quitting is named SaveWithoutQuitting).
SaveWithoutQuitting == [tag |-> "SaveWithoutQuitting"]
DeleteActivity(id) == [tag |-> "DeleteActivity", id |-> id]

\* activity_selector_options
activity_selector_options == activity_options(activity_types, activities, active_date)

\* selected_activity_option: Vec::get(index) of the options, None when there
\* is no selection or the index is past the end.
selected_option(tstore, astore, selector, date) ==
    LET sel == selector.selected_index
        options == activity_options(tstore, astore, date)
    IN  IF IsSome(sel) /\ Unwrap(sel) < Len(options)
        THEN Some(options[Unwrap(sel) + 1])
        ELSE None

selected_activity_option ==
    selected_option(activity_types, activities, activity_selector_state, active_date)

\* heatmap_values indexes activity_types() with the selected index: a panic
\* when the index is past the end.
heatmap_values_panics ==
    LET sel == activity_selector_state.selected_index
    IN  IsSome(sel) /\ Unwrap(sel) >= Len(activity_types_list(activity_types))

\* A wrong heat source: the records of every type (what the loop of main.rs
\* shows).
heatmap_values_of_all_types == activities_all(activities)

\* heatmap_values: the records of the selected type.
heatmap_values ==
    LET sel == activity_selector_state.selected_index
    IN  IF ~IsSome(sel) THEN <<>>
        ELSE activities_with_type(activities,
                                  activity_types_list(activity_types)[Unwrap(sel) + 1])

\* ActivitySelector::height() for `values` options.
ActivitySelector_height(values) ==
    LET rows == IF values % ACTIVITIES_PER_ROW # 0
                THEN values \div ACTIVITIES_PER_ROW + 1
                ELSE values \div ACTIVITIES_PER_ROW
    IN  rows * 5 + 2

\* The closure of terminal.draw: what one frame writes.  A widget is logged
\* with the area it is rendered into (a popup with the area it is centered
\* in).  The layout gives the first two chunks their lengths, which fit on
\* this path, and the last chunk the rest of the height.
DailaDraw ==
    LET widget       == HeatMap_values(HeatMap_default, heatmap_values)
        frame_size   == terminal.size
        sel_height   == ActivitySelector_height(Len(activity_selector_options))
        display_size == Rect(frame_size.x, frame_size.y,
                             HeatMap_width(widget), frame_size.height)
        required_height == sel_height + HeatMap_height(widget)
        required_width  == HeatMap_width(widget)
        chunk0 == Rect(display_size.x, display_size.y, display_size.width, sel_height)
        chunk1 == Rect(display_size.x, display_size.y + sel_height,
                       display_size.width, HeatMap_height(widget))
        chunk2 == Rect(display_size.x, display_size.y + required_height,
                       display_size.width, display_size.height - required_height)
        drawn  == HeatMap_render(widget, chunk1)
    IN  IF heatmap_values_panics
        THEN [Buffer_empty(frame_size) EXCEPT !.panic = TRUE]
        ELSE IF required_height > frame_size.height \/ required_width > frame_size.width
        THEN [Buffer_empty(frame_size) EXCEPT
                 !.widgets = {[widget |-> "notice", area |-> display_size]}]
        ELSE [area    |-> frame_size,
              panic   |-> drawn.panic,
              widgets |-> {[widget |-> "heatmap", area |-> chunk1],
                           [widget |-> "instructions", area |-> chunk2],
                           [widget |-> "selector", area |-> chunk0]}
                            \cup (IF state.kind = "Default" THEN {}
                                  ELSE {[widget |-> state.kind, area |-> display_size]}),
              cells   |-> drawn.cells,
              borders |-> drawn.borders,
              labels  |-> drawn.labels]

\* One pass of the loop of run_daila reads one event.
LoopPass == pc = "loop" /\ running /\ events < MaxEvents

\* A panic unwinds out of the loop: the fields stay as they are.
Panic ==
    /\ pc' = "panicked"
    /\ events' = events + 1
    /\ UNCHANGED <<activity_types, activities, active_date, activity_selector_state,
                   running, state, refresh, types_file, activities_file, display>>

\* The end of a pass: the loop goes on while `running`.
EndPass ==
    /\ pc' = IF running' THEN "loop" ELSE "done"
    /\ events' = events + 1

\* The files the process starts from.
Name_a == <<"a">>
Name_q == <<"q">>
Registry0 == ActivityTypesStore_default
Registry1 == create_new_activity(Registry0, Name_a).store
Registry2 == create_new_activity(Registry1, Name_q).store
Registry3 == delete_activity_type(Registry2, 0)
Registry4 ==
    delete_activity_type(
        create_new_activity(
            create_new_activity(create_new_activity(Registry2, <<>>).store,
                                Name_a).store, Name_q).store, 3)

Log0 == ActivitiesStore_default
Log1 == add_activity(Log0, Activity_new(0, Today))
Log2 == add_activity(add_activity(Log1, Activity_new(0, Today)), Activity_new(1, Today))
Log3 ==
    [days |-> MapInsert(add_activity(add_activity(Log0, Activity_new(1, Today + 1)),
                                     Activity_new(5, Today + 1)).days,
                        Today - 1, <<>>)]

\* The pairs (activity_types.json, activities.json) a run starts from: every
\* sample Registry with every sample Log, and the files that are missing,
\* do not parse, or cannot be opened for reading or for writing.
TypesFile(r) == ValidFile(to_writer_types(r), "rw")
ActivitiesFile(l) == ValidFile(to_writer_activities(l), "rw")

InitialFiles ==
    {<<TypesFile(r), ActivitiesFile(l)>> :
        r \in {Registry0, Registry1, Registry2, Registry3, Registry4},
        l \in {Log0, Log2, Log3}}
      \cup {<<AbsentFile, AbsentFile>>,
            <<AbsentFile, ActivitiesFile(Log3)>>,
            <<TypesFile(Registry2), AbsentFile>>,
            <<CorruptFile, ActivitiesFile(Log1)>>,
            <<TypesFile(Registry2), CorruptFile>>,
            <<ValidFile(to_writer_types(Registry2), "wo"), ActivitiesFile(Log2)>>,
            <<TypesFile(Registry2), ValidFile(to_writer_activities(Log1), "wo")>>,
            <<ValidFile(to_writer_types(Registry1), "ro"), ActivitiesFile(Log1)>>,
            <<TypesFile(Registry1), ValidFile(to_writer_activities(Log1), "ro")>>}

\* Before Daila::new(): the files are on disk, the session does not exist yet.
Init ==
    /\ \E files \in InitialFiles :
         /\ types_file = files[1]
         /\ activities_file = files[2]
    /\ activity_types = ActivityTypesStore_default
    /\ activities = ActivitiesStore_default
    /\ active_date = Today
    /\ activity_selector_state = ActivitySelectorState_new(0)
    /\ running = FALSE
    /\ state = Default
    /\ refresh = FALSE
    /\ pc = "start"
    /\ events = 0
    /\ DisplayIdle

\* Daila::new(): load both stores (a load that fails to parse panics).
New ==
    /\ pc = "start"
    /\ LET lt == load_types(types_file)
           la == load_activities(activities_file)
       IN  IF lt.ok /\ la.ok
           THEN /\ activity_types' = lt.value
                /\ activities' = la.value
                /\ activity_selector_state' =
                      ActivitySelectorState_new(ActivityTypesStore_len(lt.value))
                /\ pc' = "constructed"
           ELSE /\ pc' = "panicked"
                /\ UNCHANGED <<activity_types, activities, activity_selector_state>>
    /\ active_date' = Today
    /\ running' = FALSE
    /\ state' = Default
    /\ refresh' = FALSE
    /\ UNCHANGED <<types_file, activities_file, events, display>>

\* run_daila: `self.running = true` and into the loop.
RunDaila ==
    /\ pc = "constructed"
    /\ running' = TRUE
    /\ pc' = "loop"
    /\ UNCHANGED <<activity_types, activities, active_date, activity_selector_state,
                   state, refresh, types_file, activities_file, events, display>>

(***************************************************************************)
(* handle_event in DailaState::Default, one action per DailaEvent.  Every  *)
(* pass first clears `refresh` and draws the frame (heatmap_values).       *)
(***************************************************************************)
DefaultEvent(name) ==
    /\ LoopPass
    /\ state.kind = "Default"
    /\ \E event \in InputEvents : from_event(event) = Some(name)

\* parse_input_event(&event)? returns None: the event is ignored.
Unbound ==
    /\ LoopPass
    /\ state.kind = "Default"
    /\ \E event \in InputEvents : from_event(event) = None
    /\ IF heatmap_values_panics THEN Panic
       ELSE /\ refresh' = FALSE
            /\ UNCHANGED <<activity_types, activities, active_date,
                           activity_selector_state, running, state,
                           types_file, activities_file, display>>
            /\ EndPass

QuitWithoutSaving ==
    /\ DefaultEvent("QuitWithoutSaving")
    /\ IF heatmap_values_panics THEN Panic
       ELSE /\ refresh' = TRUE
            /\ state' = InConfirmationPopup(
                           SaveWithoutQuitting,
                           ConfirmationPopupState_new(<<"Quit without saving?">>))
            /\ UNCHANGED <<activity_types, activities, active_date,
                           activity_selector_state, running,
                           types_file, activities_file, display>>
            /\ EndPass

\* A wrong save-and-quit: activities.save() is left out.
SaveAndQuit_types_only ==
    /\ DefaultEvent("SaveAndQuit")
    /\ IF heatmap_values_panics THEN Panic
       ELSE LET st == save_types(types_file, activity_types)
            IN  /\ running' = FALSE
                /\ refresh' = FALSE
                /\ types_file' = st.file
                /\ pc' = IF st.ok THEN "done" ELSE "panicked"
                /\ events' = events + 1
                /\ UNCHANGED <<activity_types, activities, active_date,
                               activity_selector_state, state, activities_file, display>>

\* running = false, then both stores are saved; a save that fails panics
\* and leaves what was written before it.
SaveAndQuit ==
    /\ DefaultEvent("SaveAndQuit")
    /\ IF heatmap_values_panics THEN Panic
       ELSE LET st == save_types(types_file, activity_types)
                sa == save_activities(activities_file, activities)
            IN  /\ running' = FALSE
                /\ refresh' = FALSE
                /\ types_file' = st.file
                /\ activities_file' = IF st.ok THEN sa.file ELSE activities_file
                /\ pc' = IF st.ok /\ sa.ok THEN "done" ELSE "panicked"
                /\ events' = events + 1
                /\ UNCHANGED <<activity_types, activities, active_date,
                               activity_selector_state, state, display>>

\* The ToggleSelectedActivity arm: the Log after the toggle of `option` on
\* `date` (`panic` is set when remove_activity unwraps a missing day).
\* A wrong toggle: the record is removed whether or not the option is
\* completed.
toggle_option_unguarded(astore, option, date) ==
    IF ~IsSome(option) THEN [panic |-> FALSE, activities |-> astore]
    ELSE LET activity == Activity_new(Unwrap(option).activity_type.id, date)
         IN  IF remove_activity_panics(astore, activity)
             THEN [panic |-> TRUE, activities |-> astore]
             ELSE [panic |-> FALSE, activities |-> remove_activity(astore, activity)]

toggle_option(astore, option, date) ==
    IF ~IsSome(option) THEN [panic |-> FALSE, activities |-> astore]
    ELSE LET activity == Activity_new(Unwrap(option).activity_type.id, date)
         IN  IF Unwrap(option).completed
             THEN IF remove_activity_panics(astore, activity)
                  THEN [panic |-> TRUE, activities |-> astore]
                  ELSE [panic |-> FALSE, activities |-> remove_activity(astore, activity)]
             ELSE [panic |-> FALSE, activities |-> add_activity(astore, activity)]

toggle_selected == toggle_option(activities, selected_activity_option, active_date)

ToggleSelectedActivity ==
    /\ DefaultEvent("ToggleSelectedActivity")
    /\ IF heatmap_values_panics \/ toggle_selected.panic THEN Panic
       ELSE /\ activities' = toggle_selected.activities
            /\ refresh' = FALSE
            /\ UNCHANGED <<activity_types, active_date, activity_selector_state,
                           running, state, types_file, activities_file, display>>
            /\ EndPass

CreateNewActivity ==
    /\ DefaultEvent("CreateNewActivity")
    /\ IF heatmap_values_panics THEN Panic
       ELSE /\ refresh' = TRUE
            /\ state' = InActivityPopup(ActivityPopupState_new_creator)
            /\ UNCHANGED <<activity_types, activities, active_date,
                           activity_selector_state, running,
                           types_file, activities_file, display>>
            /\ EndPass

\* A wrong edit key: the editor is opened without a selection too.
EditSelectedActivity_always_opens ==
    /\ DefaultEvent("EditSelectedActivity")
    /\ IF heatmap_values_panics THEN Panic
       ELSE /\ refresh' = TRUE
            /\ state' =
                 LET option == selected_activity_option
                 IN  IF IsSome(option)
                     THEN InActivityPopup(
                              ActivityPopupState_new_editor(
                                  Unwrap(option).activity_type.name,
                                  Unwrap(option).activity_type.id))
                     ELSE InActivityPopup(ActivityPopupState_new_editor(<<>>, 0))
            /\ UNCHANGED <<activity_types, activities, active_date,
                           activity_selector_state, running,
                           types_file, activities_file, display>>
            /\ EndPass

EditSelectedActivity ==
    /\ DefaultEvent("EditSelectedActivity")
    /\ IF heatmap_values_panics THEN Panic
       ELSE /\ refresh' = TRUE
            /\ state' =
                 LET option == selected_activity_option
                 IN  IF IsSome(option)
                     THEN InActivityPopup(
                              ActivityPopupState_new_editor(
                                  Unwrap(option).activity_type.name,
                                  Unwrap(option).activity_type.id))
                     ELSE state
            /\ UNCHANGED <<activity_types, activities, active_date,
                           activity_selector_state, running,
                           types_file, activities_file, display>>
            /\ EndPass

\* A wrong delete key: the selected index is taken for the id.
DeleteSelectedActivity_by_index ==
    /\ DefaultEvent("DeleteSelectedActivity")
    /\ IF heatmap_values_panics THEN Panic
       ELSE /\ refresh' = TRUE
            /\ state' =
                 LET option == selected_activity_option
                 IN  IF IsSome(option)
                     THEN InConfirmationPopup(
                              DeleteActivity(Unwrap(activity_selector_state.selected_index)),
                              ConfirmationPopupState_new(
                                  <<"Confirm deletion of: ",
                                    Unwrap(option).activity_type.name>>))
                     ELSE state
            /\ UNCHANGED <<activity_types, activities, active_date,
                           activity_selector_state, running,
                           types_file, activities_file, display>>
            /\ EndPass

DeleteSelectedActivity ==
    /\ DefaultEvent("DeleteSelectedActivity")
    /\ IF heatmap_values_panics THEN Panic
       ELSE /\ refresh' = TRUE
            /\ state' =
                 LET option == selected_activity_option
                 IN  IF IsSome(option)
                     THEN InConfirmationPopup(
                              DeleteActivity(Unwrap(option).activity_type.id),
                              ConfirmationPopupState_new(
                                  <<"Confirm deletion of: ",
                                    Unwrap(option).activity_type.name>>))
                     ELSE state
            /\ UNCHANGED <<activity_types, activities, active_date,
                           activity_selector_state, running,
                           types_file, activities_file, display>>
            /\ EndPass

\* The three day keys change active_date only.
\* A wrong day navigation: moving the date also puts the selection back on
\* the first activity type.
GotoDay_resets_selection(name, date) ==
    /\ DefaultEvent(name)
    /\ IF heatmap_values_panics THEN Panic
       ELSE /\ active_date' = date
            /\ activity_selector_state' =
                 ActivitySelectorState_new(activity_selector_state.activity_count)
            /\ refresh' = FALSE
            /\ UNCHANGED <<activity_types, activities,
                           running, state, types_file, activities_file, display>>
            /\ EndPass

GotoDay(name, date) ==
    /\ DefaultEvent(name)
    /\ IF heatmap_values_panics THEN Panic
       ELSE /\ active_date' = date
            /\ refresh' = FALSE
            /\ UNCHANGED <<activity_types, activities, activity_selector_state,
                           running, state, types_file, activities_file, display>>
            /\ EndPass

GotoPreviousDay == GotoDay("GotoPreviousDay", Unwrap(pred_opt(active_date)))
GotoNextDay == GotoDay("GotoNextDay", Unwrap(succ_opt(active_date)))
GotoToday == GotoDay("GotoToday", Today)

\* The four arrow keys move the selector only.
MoveSelector(name, selector) ==
    /\ DefaultEvent(name)
    /\ IF heatmap_values_panics THEN Panic
       ELSE /\ activity_selector_state' = selector
            /\ refresh' = FALSE
            /\ UNCHANGED <<activity_types, activities, active_date,
                           running, state, types_file, activities_file, display>>
            /\ EndPass

ActivityLeft == MoveSelector("ActivityLeft", select_left(activity_selector_state))
ActivityRight == MoveSelector("ActivityRight", select_right(activity_selector_state))
ActivityUp == MoveSelector("ActivityUp", select_up(activity_selector_state))
ActivityDown == MoveSelector("ActivityDown", select_down(activity_selector_state))

(***************************************************************************)
(* handle_event in DailaState::ActivityPopup.                              *)
(***************************************************************************)
\* The popup returns None: its own state is all that changes.
ActivityPopupKey ==
    /\ LoopPass
    /\ state.kind = "ActivityPopup"
    /\ \E event \in InputEvents :
         LET r == ActivityPopup_handle_event(event, state.state)
         IN  /\ r.action.tag = "None"
             /\ Len(r.state.text_input) > Len(state.state.text_input)
                   => Len(r.state.text_input) <= MaxNameLen
             /\ IF heatmap_values_panics \/ r.panic THEN Panic
                ELSE /\ state' = InActivityPopup(r.state)
                     /\ refresh' = FALSE
                     /\ UNCHANGED <<activity_types, activities, active_date,
                                    activity_selector_state, running,
                                    types_file, activities_file, display>>
                     /\ EndPass

\* A wrong Exit: the text of the popup is made a type all the same.
ActivityPopupExit_creates ==
    /\ LoopPass
    /\ state.kind = "ActivityPopup"
    /\ \E event \in InputEvents :
         ActivityPopup_handle_event(event, state.state).action.tag = "Exit"
    /\ IF heatmap_values_panics THEN Panic
       ELSE /\ refresh' = TRUE
            /\ state' = Default
            /\ activity_types' =
                 create_new_activity(activity_types, state.state.text_input).store
            /\ UNCHANGED <<activities, active_date,
                           activity_selector_state, running,
                           types_file, activities_file, display>>
            /\ EndPass

ActivityPopupExit ==
    /\ LoopPass
    /\ state.kind = "ActivityPopup"
    /\ \E event \in InputEvents :
         ActivityPopup_handle_event(event, state.state).action.tag = "Exit"
    /\ IF heatmap_values_panics THEN Panic
       ELSE /\ refresh' = TRUE
            /\ state' = Default
            /\ UNCHANGED <<activity_types, activities, active_date,
                           activity_selector_state, running,
                           types_file, activities_file, display>>
            /\ EndPass

ActivityPopupCreate ==
    /\ LoopPass
    /\ state.kind = "ActivityPopup"
    /\ \E event \in InputEvents :
         LET action == ActivityPopup_handle_event(event, state.state).action
         IN  /\ action.tag = "CreateActivity"
             /\ IF heatmap_values_panics THEN Panic
                ELSE /\ refresh' = TRUE
                     /\ state' = Default
                     /\ activity_types' =
                          create_new_activity(activity_types, action.title).store
                     /\ activity_selector_state' =
                          ActivitySelectorState_new(Len(activity_types_list(activity_types')))
                     /\ UNCHANGED <<activities, active_date, running,
                                    types_file, activities_file, display>>
                     /\ EndPass

\* A wrong edit arm: the selector is rebuilt as in the create arm.
ActivityPopupEdit_resets_selector ==
    /\ LoopPass
    /\ state.kind = "ActivityPopup"
    /\ \E event \in InputEvents :
         LET action == ActivityPopup_handle_event(event, state.state).action
         IN  /\ action.tag = "EditActivity"
             /\ IF heatmap_values_panics THEN Panic
                ELSE /\ refresh' = TRUE
                     /\ state' = Default
                     /\ activity_types' =
                          update_activity(activity_types, action.id, action.title)
                     /\ activity_selector_state' =
                          ActivitySelectorState_new(Len(activity_types_list(activity_types')))
                     /\ UNCHANGED <<activities, active_date, running,
                                    types_file, activities_file, display>>
                     /\ EndPass

ActivityPopupEdit ==
    /\ LoopPass
    /\ state.kind = "ActivityPopup"
    /\ \E event \in InputEvents :
         LET action == ActivityPopup_handle_event(event, state.state).action
         IN  /\ action.tag = "EditActivity"
             /\ IF heatmap_values_panics THEN Panic
                ELSE /\ refresh' = TRUE
                     /\ state' = Default
                     /\ activity_types' =
                          update_activity(activity_types, action.id, action.title)
                     /\ UNCHANGED <<activities, active_date, activity_selector_state,
                                    running, types_file, activities_file, display>>
                     /\ EndPass

(***************************************************************************)
(* handle_event in DailaState::ConfirmationPopup.                          *)
(***************************************************************************)
\* A wrong confirmation branch: the key of the next day still moves the
\* active date while the popup is open.
ConfirmationKey_navigates ==
    /\ LoopPass
    /\ state.kind = "ConfirmationPopup"
    /\ \E event \in InputEvents :
         LET r == ConfirmationPopup_handle_event(event, state.state)
         IN  /\ r.action.tag = "None"
             /\ IF heatmap_values_panics THEN Panic
                ELSE /\ state' = InConfirmationPopup(state.action, r.state)
                     /\ refresh' = FALSE
                     /\ active_date' = IF from_event(event) = Some("GotoNextDay")
                                       THEN Unwrap(succ_opt(active_date))
                                       ELSE active_date
                     /\ UNCHANGED <<activity_types, activities,
                                    activity_selector_state, running,
                                    types_file, activities_file, display>>
                     /\ EndPass

ConfirmationKey ==
    /\ LoopPass
    /\ state.kind = "ConfirmationPopup"
    /\ \E event \in InputEvents :
         LET r == ConfirmationPopup_handle_event(event, state.state)
         IN  /\ r.action.tag = "None"
             /\ IF heatmap_values_panics THEN Panic
                ELSE /\ state' = InConfirmationPopup(state.action, r.state)
                     /\ refresh' = FALSE
                     /\ UNCHANGED <<activity_types, activities, active_date,
                                    activity_selector_state, running,
                                    types_file, activities_file, display>>
                     /\ EndPass

ConfirmationAnswer(tag) ==
    /\ LoopPass
    /\ state.kind = "ConfirmationPopup"
    /\ \E event \in InputEvents :
         ConfirmationPopup_handle_event(event, state.state).action.tag = tag

\* Accept of "Quit without saving?": running = false, nothing is saved.
ConfirmationAcceptQuit ==
    /\ ConfirmationAnswer("Accept")
    /\ state.action.tag = "SaveWithoutQuitting"
    /\ IF heatmap_values_panics THEN Panic
       ELSE /\ running' = FALSE
            /\ state' = Default
            /\ refresh' = FALSE
            /\ UNCHANGED <<activity_types, activities, active_date,
                           activity_selector_state, types_file, activities_file, display>>
            /\ EndPass

ConfirmationAcceptDelete ==
    /\ ConfirmationAnswer("Accept")
    /\ state.action.tag = "DeleteActivity"
    /\ IF heatmap_values_panics THEN Panic
       ELSE /\ activity_types' = delete_activity_type(activity_types, state.action.id)
            /\ activity_selector_state' =
                 ActivitySelectorState_new(Len(activity_types_list(activity_types')))
            /\ state' = Default
            /\ refresh' = FALSE
            /\ UNCHANGED <<activities, active_date, running,
                           types_file, activities_file, display>>
            /\ EndPass

\* A wrong Decline: the loop is stopped all the same.
ConfirmationDecline_stops ==
    /\ ConfirmationAnswer("Decline")
    /\ IF heatmap_values_panics THEN Panic
       ELSE /\ state' = Default
            /\ refresh' = FALSE
            /\ running' = (state.action.tag # "SaveWithoutQuitting")
            /\ UNCHANGED <<activity_types, activities, active_date,
                           activity_selector_state, types_file, activities_file, display>>
            /\ EndPass

ConfirmationDecline ==
    /\ ConfirmationAnswer("Decline")
    /\ IF heatmap_values_panics THEN Panic
       ELSE /\ state' = Default
            /\ refresh' = FALSE
            /\ UNCHANGED <<activity_types, activities, active_date,
                           activity_selector_state, running,
                           types_file, activities_file, display>>
            /\ EndPass

\* One pass of the loop of run_daila: the event read is handled.
SessionNext ==
    \/ Unbound
    \/ QuitWithoutSaving
    \/ SaveAndQuit
    \/ ToggleSelectedActivity
    \/ CreateNewActivity
    \/ EditSelectedActivity
    \/ DeleteSelectedActivity
    \/ GotoPreviousDay
    \/ GotoNextDay
    \/ GotoToday
    \/ ActivityLeft
    \/ ActivityRight
    \/ ActivityUp
    \/ ActivityDown
    \/ ActivityPopupKey
    \/ ActivityPopupExit
    \/ ActivityPopupCreate
    \/ ActivityPopupEdit
    \/ ConfirmationKey
    \/ ConfirmationAcceptQuit
    \/ ConfirmationAcceptDelete
    \/ ConfirmationDecline

Next == New \/ RunDaila \/ SessionNext

Spec == Init /\ [][Next]_vars

(***************************************************************************)
(* The session from the pass after a delete was accepted: started from a   *)
(* pair of readable files, the type at some index was selected, the delete *)
(* key pressed and the confirmation accepted.                              *)
(***************************************************************************)
AfterDeleteInit ==
    /\ \E files \in InitialFiles :
         /\ files[1].valid /\ files[1].mode = "rw"
         /\ files[2].valid /\ files[2].mode = "rw"
         /\ types_file = files[1]
         /\ activities_file = files[2]
         /\ activities = load_activities(files[2]).value
         /\ \E id \in DOMAIN load_types(files[1]).value.types :
              activity_types = delete_activity_type(load_types(files[1]).value, id)
    /\ activity_selector_state =
         ActivitySelectorState_new(Len(activity_types_list(activity_types)))
    /\ active_date = Today
    /\ running = TRUE
    /\ state = Default
    /\ refresh = FALSE
    /\ pc = "loop"
    /\ events = 0
    /\ DisplayIdle

AfterDeleteSpec == AfterDeleteInit /\ [][SessionNext]_vars

(***************************************************************************)
(* main.rs: run_daila, the loop `main` runs.  It toggles the option whose  *)
(* index is the digit typed, stops on 'q', and saves both stores after the *)
(* loop.                                                                   *)
(***************************************************************************)
MainEvents ==
    {<<"Char", c>> : c \in {"0", "1", "2", "3", "9", "q", "x"}}
      \cup {<<"Esc">>, <<"Resize">>}

IsDigitKey(event) ==
    Len(event) = 2 /\ \E n \in 0..9 : event[2] = DigitChar(n)

MainInit ==
    /\ \E files \in InitialFiles :
         /\ types_file = files[1]
         /\ activities_file = files[2]
    /\ activity_types = ActivityTypesStore_default
    /\ activities = ActivitiesStore_default
    /\ active_date = Today
    /\ activity_selector_state = ActivitySelectorState_new(0)
    /\ running = FALSE
    /\ state = Default
    /\ refresh = FALSE
    /\ pc = "main"
    /\ events = 0
    /\ DisplayIdle

\* Daila::init(): the two stores, loaded from their files.
Daila_init ==
    LET lt == load_types(types_file)
        la == load_activities(activities_file)
    IN  [ok |-> lt.ok /\ la.ok, activity_types |-> lt.value, activities |-> la.value]

\* The start of run_daila: the stores of Daila::init(), running = true and
\* active_date = today.
MainStart ==
    /\ pc = "main"
    /\ IF Daila_init.ok
       THEN /\ activity_types' = Daila_init.activity_types
            /\ activities' = Daila_init.activities
            /\ running' = TRUE
            /\ pc' = "main_loop"
       ELSE /\ pc' = "panicked"
            /\ UNCHANGED <<activity_types, activities, running>>
    /\ active_date' = Today
    /\ UNCHANGED <<activity_selector_state, state, refresh,
                   types_file, activities_file, events, display>>

MainLoopPass == pc = "main_loop" /\ running /\ events < MaxEvents

\* options.get(index) for the digit typed.
main_option(index) ==
    LET options == activity_options(activity_types, activities, active_date)
    IN  IF index < Len(options) THEN Some(options[index + 1]) ELSE None

\* A digit key: toggle the option at that index, if there is one.
MainToggle ==
    /\ MainLoopPass
    /\ \E event \in MainEvents :
         /\ IsDigitKey(event)
         /\ LET r == toggle_option(activities, main_option(DigitValue(event[2])),
                                   active_date)
            IN  IF r.panic
                THEN /\ pc' = "panicked"
                     /\ UNCHANGED activities
                ELSE /\ pc' = pc
                     /\ activities' = r.activities
    /\ events' = events + 1
    /\ UNCHANGED <<activity_types, active_date, activity_selector_state, running,
                   state, refresh, types_file, activities_file, display>>

\* Any other event but 'q' changes nothing.
MainIgnored ==
    /\ MainLoopPass
    /\ \E event \in MainEvents : ~IsDigitKey(event) /\ event # <<"Char", "q">>
    /\ events' = events + 1
    /\ UNCHANGED <<activity_types, activities, active_date, activity_selector_state,
                   running, state, refresh, types_file, activities_file, pc, display>>

\* 'q': running = false, the loop ends and both stores are saved.
MainQuit ==
    /\ MainLoopPass
    /\ \E event \in MainEvents : event = <<"Char", "q">>
    /\ LET st == save_types(types_file, activity_types)
           sa == save_activities(activities_file, activities)
       IN  /\ running' = FALSE
           /\ types_file' = st.file
           /\ activities_file' = IF st.ok THEN sa.file ELSE activities_file
           /\ pc' = IF st.ok /\ sa.ok THEN "done" ELSE "panicked"
    /\ events' = events + 1
    /\ UNCHANGED <<activity_types, activities, active_date, activity_selector_state,
                   state, refresh, display>>

MainNext == MainStart \/ MainToggle \/ MainIgnored \/ MainQuit

MainSpec == MainInit /\ [][MainNext]_vars

(***************************************************************************)
(* The Registry on its own: any sequence of create, rename and delete.     *)
(***************************************************************************)
Names == {<<>>, Name_a, Name_q}

RegistryInit ==
    /\ activity_types = ActivityTypesStore_default
    /\ activities = ActivitiesStore_default
    /\ active_date = Today
    /\ activity_selector_state = ActivitySelectorState_new(0)
    /\ running = FALSE
    /\ state = Default
    /\ refresh = FALSE
    /\ types_file = AbsentFile
    /\ activities_file = AbsentFile
    /\ pc = "registry"
    /\ events = 0
    /\ DisplayIdle

RegistryFrame ==
    UNCHANGED <<activities, active_date, activity_selector_state, running, state,
                refresh, types_file, activities_file, events, display>>

RegistryCreate ==
    /\ pc \in {"registry", "created", "renamed", "deleted"}
    /\ ActivityTypesStore_len(activity_types) < MaxTypes
    /\ \E name \in Names :
         activity_types' = create_new_activity(activity_types, name).store
    /\ pc' = "created"
    /\ RegistryFrame

RegistryRename ==
    /\ pc \in {"registry", "created", "renamed", "deleted"}
    /\ \E id \in 0..MaxTypes, name \in Names :
         activity_types' = update_activity(activity_types, id, name)
    /\ pc' = "renamed"
    /\ RegistryFrame

RegistryDelete ==
    /\ pc \in {"registry", "created", "renamed", "deleted"}
    /\ \E id \in DOMAIN activity_types.types :
         activity_types' = delete_activity_type(activity_types, id)
    /\ pc' = "deleted"
    /\ RegistryFrame

RegistryNext == RegistryCreate \/ RegistryRename \/ RegistryDelete

RegistrySpec == RegistryInit /\ [][RegistryNext]_vars

(***************************************************************************)
(* The two documents on their own: save, then load.                        *)
(***************************************************************************)
\* The ids and dates of the stores saved (12 is written with two digits).
FileIds == {0, 1, 12}
FileDates == {Today - 1, Today, Today + 1}

\* Every Registry over FileIds.
FileRegistries ==
    {[types |-> [k \in D |-> [id |-> k, name |-> names[k]]]] :
        D \in SUBSET FileIds, names \in [FileIds -> Names]}

RECURSIVE SeqsUpTo(_, _)
\* The sequences over S of length at most n.
SeqsUpTo(S, n) ==
    IF n = 0 THEN {<<>>}
    ELSE LET shorter == SeqsUpTo(S, n - 1)
         IN  shorter \cup {Append(q, x) : q \in shorter, x \in S}

\* Every Log over FileDates whose days hold at most MaxDayLen records of the
\* ids 0 and 12: empty days, duplicates and ids no Registry has included.
FileLogs ==
    {[days |-> [d \in D |->
                  [j \in 1..Len(ids[d]) |-> Activity_new(ids[d][j], d)]]] :
        D \in SUBSET FileDates, ids \in [FileDates -> SeqsUpTo({0, 12}, MaxDayLen)]}

FileInit ==
    /\ \/ activity_types \in FileRegistries /\ activities = ActivitiesStore_default
       \/ activity_types = Registry4 /\ activities \in FileLogs
    /\ \E files \in {<<AbsentFile, AbsentFile>>,
                     <<CorruptFile, CorruptFile>>,
                     <<TypesFile(Registry2), ActivitiesFile(Log2)>>} :
         /\ types_file = files[1]
         /\ activities_file = files[2]
    /\ active_date = Today
    /\ activity_selector_state = ActivitySelectorState_new(0)
    /\ running = FALSE
    /\ state = Default
    /\ refresh = FALSE
    /\ pc = "file"
    /\ events = 0
    /\ DisplayIdle

FileFrame ==
    UNCHANGED <<active_date, activity_selector_state, running, state, refresh, events>>

\* activity_types.save(); activities.save();
FileSave ==
    /\ pc = "file"
    /\ LET st == save_types(types_file, activity_types)
           sa == save_activities(activities_file, activities)
       IN  /\ types_file' = st.file
           /\ activities_file' = IF st.ok THEN sa.file ELSE activities_file
           /\ pc' = IF st.ok /\ sa.ok THEN "saved" ELSE "panicked"
    /\ UNCHANGED <<activity_types, activities, display>>
    /\ FileFrame

\* ActivityTypesStore::load(); ActivitiesStore::load();
FileLoad ==
    /\ pc = "saved"
    /\ LET lt == load_types(types_file)
           la == load_activities(activities_file)
       IN  /\ activity_types' = lt.value
           /\ activities' = la.value
           /\ pc' = IF lt.ok /\ la.ok THEN "loaded" ELSE "panicked"
    /\ UNCHANGED <<types_file, activities_file, display>>
    /\ FileFrame

FileNext == FileSave \/ FileLoad

FileSpec == FileInit /\ [][FileNext]_vars

(***************************************************************************)
(* The Log on its own: records are added, then one remove_activity.        *)
(* `events` counts the records added.                                      *)
(***************************************************************************)
LogInit ==
    /\ activity_types = ActivityTypesStore_default
    /\ activities = ActivitiesStore_default
    /\ active_date = Today
    /\ activity_selector_state = ActivitySelectorState_new(0)
    /\ running = FALSE
    /\ state = Default
    /\ refresh = FALSE
    /\ types_file = AbsentFile
    /\ activities_file = AbsentFile
    /\ pc = "log"
    /\ events = 0
    /\ DisplayIdle

\* activities.add_activity(Activity::new(id, date)), a day holding at most
\* MaxDayLen + 1 records.
LogAdd(id, date) ==
    /\ pc \in {"log", "added"}
    /\ date \in DOMAIN activities.days => Len(activities.days[date]) <= MaxDayLen
    /\ activities' = add_activity(activities, Activity_new(id, date))
    /\ pc' = "added"
    /\ events' = events + 1
    /\ UNCHANGED <<activity_types, active_date, activity_selector_state, running,
                   state, refresh, types_file, activities_file, display>>

\* activities.remove_activity(Activity::new(id, date)): the unwrap panics
\* when the Log has no entry for the date.
LogRemove(id, date) ==
    /\ pc \in {"log", "added"}
    /\ IF remove_activity_panics(activities, Activity_new(id, date))
       THEN pc' = "panicked" /\ UNCHANGED activities
       ELSE /\ activities' = remove_activity(activities, Activity_new(id, date))
            /\ pc' = "removed"
    /\ UNCHANGED <<activity_types, active_date, activity_selector_state, running,
                   state, refresh, types_file, activities_file, events, display>>

LogNext ==
    \E id \in FileIds, date \in {Today, Today + 1} :
        LogAdd(id, date) \/ LogRemove(id, date)

LogSpec == LogInit /\ [][LogNext]_vars

(***************************************************************************)
(* The selector on its own: a state for any number of items, then motions. *)
(* pc names the last motion.                                               *)
(***************************************************************************)
SelectorInit ==
    /\ \E n \in 0..MaxItems : activity_selector_state = ActivitySelectorState_new(n)
    /\ activity_types = ActivityTypesStore_default
    /\ activities = ActivitiesStore_default
    /\ active_date = Today
    /\ running = FALSE
    /\ state = Default
    /\ refresh = FALSE
    /\ types_file = AbsentFile
    /\ activities_file = AbsentFile
    /\ pc = "selector"
    /\ events = 0
    /\ DisplayIdle

\* select_right(), select_left(), select_up() or select_down().
SelectorStep ==
    /\ pc \in {"selector", "right", "left", "up", "down"}
    /\ \/ activity_selector_state' = select_right(activity_selector_state) /\ pc' = "right"
       \/ activity_selector_state' = select_left(activity_selector_state) /\ pc' = "left"
       \/ activity_selector_state' = select_up(activity_selector_state) /\ pc' = "up"
       \/ activity_selector_state' = select_down(activity_selector_state) /\ pc' = "down"
    /\ UNCHANGED <<activity_types, activities, active_date, running, state, refresh,
                   types_file, activities_file, events, display>>

SelectorSpec == SelectorInit /\ [][SelectorStep]_vars

(***************************************************************************)
(* A popup on its own, from its opening to the first action it returns.    *)
(* `keys` logs every event the popup read, with the action returned for it *)
(* and the focus it left; `events` counts them.                            *)
(***************************************************************************)
PopupEvents ==
    ArrowKeys \cup {<<"Enter">>, <<"Backspace">>, <<"Char", "a">>}

PopupInit ==
    /\ state \in {InActivityPopup(ActivityPopupState_new_creator),
                  InActivityPopup(ActivityPopupState_new_editor(Name_q, 1)),
                  InConfirmationPopup(
                      SaveWithoutQuitting,
                      ConfirmationPopupState_new(<<"Quit without saving?">>)),
                  InConfirmationPopup(
                      DeleteActivity(1),
                      ConfirmationPopupState_new(<<"Confirm deletion of: ", Name_q>>))}
    /\ activity_types = Registry2
    /\ activities = ActivitiesStore_default
    /\ active_date = Today
    /\ activity_selector_state = ActivitySelectorState_new(2)
    /\ running = TRUE
    /\ refresh = TRUE
    /\ types_file = AbsentFile
    /\ activities_file = AbsentFile
    /\ pc = "popup"
    /\ events = 0
    /\ DisplayIdle

\* What a call of handle_event leaves: the popup state, the log entry of the
\* event, and whether the popup goes on reading.
PopupRead(event, r, panic) ==
    /\ state' = [state EXCEPT !.state = r.state]
    /\ keys' = Append(keys, [event  |-> event,
                             action |-> r.action,
                             cursor |-> r.state.cursor_position])
    /\ events' = events + 1
    /\ pc' = IF panic THEN "panicked"
             ELSE IF r.action = NoAction THEN "popup" ELSE "closed"
    /\ UNCHANGED <<activity_types, activities, active_date, activity_selector_state,
                   running, refresh, types_file, activities_file,
                   terminal, heatmap, buffer>>

\* ActivityPopup::handle_event on the next event.
ActivityPopupRead ==
    /\ pc = "popup" /\ events < MaxEvents
    /\ state.kind = "ActivityPopup"
    /\ \E event \in PopupEvents :
         LET r == ActivityPopup_handle_event(event, state.state)
         IN  PopupRead(event, r, r.panic)

\* ConfirmationPopup::handle_event on the next event.
ConfirmationPopupRead ==
    /\ pc = "popup" /\ events < MaxEvents
    /\ state.kind = "ConfirmationPopup"
    /\ \E event \in PopupEvents :
         PopupRead(event, ConfirmationPopup_handle_event(event, state.state), FALSE)

PopupNext == ActivityPopupRead \/ ConfirmationPopupRead

PopupSpec == PopupInit /\ [][PopupNext]_vars

(***************************************************************************)
(* The heat-map on its own: a widget built with date_range, rows and       *)
(* values is rendered once into an area.                                   *)
(***************************************************************************)
Date(year, month, day) == DaysFromCivil([year |-> year, month |-> month, day |-> day])

HeatRanges ==
    {HeatMapDateRange_current_year,
     <<Date(2023, 1, 1), Date(2023, 12, 31)>>,
     <<Date(2024, 1, 20), Date(2024, 2, 28)>>,
     <<Date(2024, 1, 4), Date(2024, 2, 1)>>}

HeatInit ==
    /\ \E range \in HeatRanges, rows \in {5, 7},
          values \in {<<>>, activities_all(Log2), activities_all(Log3)} :
         heatmap = HeatMap_values([HeatMap_default EXCEPT !.date_range = range,
                                                          !.rows = rows], values)
    /\ \E x \in 0..MaxAreaX, y \in 0..MaxAreaY, slack \in {-1, 0, 4} :
         buffer = Buffer_empty(Rect(x, y, HeatMap_width(heatmap) + slack,
                                    HeatMap_height(heatmap) + 1))
    /\ terminal = Terminal(TRUE, TRUE, Rect(0, 0, 120, 40))
    /\ keys = <<>>
    /\ activity_types = ActivityTypesStore_default
    /\ activities = ActivitiesStore_default
    /\ active_date = Today
    /\ activity_selector_state = ActivitySelectorState_new(0)
    /\ running = FALSE
    /\ state = Default
    /\ refresh = FALSE
    /\ types_file = AbsentFile
    /\ activities_file = AbsentFile
    /\ pc = "heatmap"
    /\ events = 0

\* heatmap.render(area, buffer)
HeatRender ==
    /\ pc = "heatmap"
    /\ LET r == HeatMap_render(heatmap, buffer.area)
       IN  /\ buffer' = [buffer EXCEPT !.panic = r.panic, !.cells = r.cells,
                                       !.borders = r.borders, !.labels = r.labels]
           /\ pc' = IF r.panic THEN "panicked" ELSE "rendered"
    /\ UNCHANGED <<activity_types, activities, active_date, activity_selector_state,
                   running, state, refresh, types_file, activities_file, events,
                   terminal, heatmap, keys>>

HeatSpec == HeatInit /\ [][HeatRender]_vars

(***************************************************************************)
(* One frame of the session: the session stands at the top of a pass of    *)
(* the loop, with the stores of a pair of readable files, any option       *)
(* selected, in Default state or in a popup, on a terminal of some size.   *)
(***************************************************************************)
FrameSizes ==
    {Rect(0, 0, w, h) : w \in {103, 104, 120}, h \in {8, 13, 14, 18, 23, 24, 40}}

DrawInit ==
    /\ \E files \in InitialFiles :
         /\ files[1].valid /\ files[1].mode = "rw"
         /\ files[2].valid /\ files[2].mode = "rw"
         /\ types_file = files[1]
         /\ activities_file = files[2]
         /\ activity_types = load_types(files[1]).value
         /\ activities = load_activities(files[2]).value
    /\ \E n \in 0..MaxTypes :
         /\ n = ActivityTypesStore_len(activity_types)
         /\ \E i \in 0..n :
              /\ i > 0 => i < n
              /\ activity_selector_state =
                   [ActivitySelectorState_new(n) EXCEPT
                       !.selected_index = IF n = 0 THEN None ELSE Some(i)]
    /\ active_date = Today
    /\ running = TRUE
    /\ state \in {Default,
                  InActivityPopup(ActivityPopupState_new_creator),
                  InConfirmationPopup(
                      SaveWithoutQuitting,
                      ConfirmationPopupState_new(<<"Quit without saving?">>))}
    /\ refresh \in BOOLEAN
    /\ \E size \in FrameSizes :
         /\ terminal = Terminal(TRUE, TRUE, size)
         /\ buffer = Buffer_empty(size)
    /\ heatmap = HeatMap_default
    /\ keys = <<>>
    /\ pc = "loop"
    /\ events = 0

\* The top of a pass: refresh is reset, then the frame is drawn.  After it
\* the loop reads the next event ("drawn"), unless the frame panicked.
DrawFrame ==
    /\ pc = "loop" /\ running
    /\ refresh' = FALSE
    /\ heatmap' = HeatMap_values(HeatMap_default, heatmap_values)
    /\ buffer' = DailaDraw
    /\ pc' = IF DailaDraw.panic THEN "panicked" ELSE "drawn"
    /\ UNCHANGED <<activity_types, activities, active_date, activity_selector_state,
                   running, state, types_file, activities_file, events,
                   terminal, keys>>

DrawSpec == DrawInit /\ [][DrawFrame]_vars

(***************************************************************************)
(* main.rs: main.  It acquires raw mode and the alternate screen, runs the *)
(* loop of run_daila and releases both modes after it.  Every call ending  *)
(* in `?` may return an I/O error, which ends main at once.                *)
(***************************************************************************)
ProgramInit ==
    /\ \E files \in InitialFiles :
         /\ types_file = files[1]
         /\ activities_file = files[2]
    /\ activity_types = ActivityTypesStore_default
    /\ activities = ActivitiesStore_default
    /\ active_date = Today
    /\ activity_selector_state = ActivitySelectorState_new(0)
    /\ running = FALSE
    /\ state = Default
    /\ refresh = FALSE
    /\ pc = "setup"
    /\ events = 0
    /\ terminal = Terminal(FALSE, FALSE, Rect(0, 0, 120, 40))
    /\ heatmap = HeatMap_default
    /\ buffer = Buffer_empty(terminal.size)
    /\ keys = <<>>

ProgramFrame ==
    UNCHANGED <<activity_types, activities, active_date, activity_selector_state,
                running, state, refresh, types_file, activities_file, events,
                heatmap, buffer, keys>>

\* Setup: enable_raw_mode()?, execute!(stdout, EnterAlternateScreen)? and
\* Terminal::new(backend)?; `failed` is the call that returns an error.
MainSetup ==
    /\ pc = "setup"
    /\ \E failed \in {"none", "enable_raw_mode", "EnterAlternateScreen", "Terminal::new"} :
         /\ terminal' = [terminal EXCEPT
                            !.raw = failed # "enable_raw_mode",
                            !.alternate = failed \in {"none", "Terminal::new"}]
         /\ pc' = IF failed = "none" THEN "main" ELSE "setup_error"
    /\ ProgramFrame

\* terminal.draw(..)? in the loop returns an error: run_daila returns it and
\* so does main.
MainDrawError ==
    /\ MainLoopPass
    /\ pc' = "io_error"
    /\ UNCHANGED terminal
    /\ ProgramFrame

\* Cleanup after run_daila returned Ok: disable_raw_mode()? and
\* execute!(.., LeaveAlternateScreen)?.
MainCleanup ==
    /\ pc = "done"
    /\ \E failed \in {"none", "disable_raw_mode", "LeaveAlternateScreen"} :
         /\ terminal' = [terminal EXCEPT
                            !.raw = failed = "disable_raw_mode",
                            !.alternate = failed # "none"]
         /\ pc' = IF failed = "none" THEN "exit" ELSE "cleanup_error"
    /\ ProgramFrame

ProgramNext ==
    \/ MainSetup
    \/ MainStart
    \/ MainToggle
    \/ MainIgnored
    \/ MainQuit
    \/ MainDrawError
    \/ MainCleanup

ProgramSpec == ProgramInit /\ [][ProgramNext]_vars

(***************************************************************************)
(* Properties.                                                             *)
(***************************************************************************)
TypeCount == Cardinality(DOMAIN activity_types.types)

\* The Log holds a record of type id t on date d.
HasRecord(store, t, d) ==
    /\ d \in DOMAIN store.days
    /\ \E i \in 1..Len(store.days[d]) : store.days[d][i].activity_id = t

\* The type ids with a record in the Log.
LoggedIds(store) ==
    UNION {{store.days[d][i].activity_id : i \in 1..Len(store.days[d])} :
             d \in DOMAIN store.days}

\* C1: in every state of a session the selected index is None exactly when
\* the Registry is empty, else it is an index into the list of types; the
\* selector's activity_count is the number of types; looking up the selected
\* type (selected_activity_option, heatmap_values) stays in range.
SelectorIndexInRange ==
    LET sel == activity_selector_state.selected_index
    IN  /\ (sel = None) <=> (TypeCount = 0)
        /\ IsSome(sel) => Unwrap(sel) \in 0..(TypeCount - 1)
        /\ activity_selector_state.activity_count = TypeCount
        /\ ~heatmap_values_panics
        /\ IsSome(sel) => IsSome(selected_activity_option)

\* C1 witness: a type was deleted in the session, others remain and one is
\* selected.
SelectorAfterDelete ==
    /\ pc = "loop"
    /\ state.kind = "Default"
    /\ types_file.valid
    /\ 0 < TypeCount
    /\ TypeCount < Len(types_file.doc)
    /\ IsSome(activity_selector_state.selected_index)

\* C2: create(name) returns the smallest non-negative integer that is not an
\* id of the Registry, inserts exactly the entry {id, name} under it and
\* leaves every other entry as it was.
CreateAllocatesSmallestUnusedId ==
    [][RegistryCreate =>
         LET old == activity_types.types
             new == activity_types'.types
             id  == CHOOSE i \in 0..Cardinality(DOMAIN old) :
                        i \notin DOMAIN old /\ \A j \in 0..(i - 1) : j \in DOMAIN old
         IN  /\ DOMAIN new = DOMAIN old \cup {id}
             /\ \A k \in DOMAIN old : new[k] = old[k]
             /\ \E name \in Names :
                  /\ new[id] = [id |-> id, name |-> name]
                  /\ create_new_activity(activity_types, name).id = id]_vars

\* C2 witness: a create has just filled the gap at id 0 left by a delete
\* (id 1 is still free, id 2 is taken).
CreateFilledGap ==
    /\ pc = "created"
    /\ DOMAIN activity_types.types = {0, 2}

\* C3: the list of types for display (activity_types() and the options of
\* activity_options) holds exactly the entries of the Registry, each once,
\* in strictly ascending id order, the i-th option being the i-th type.
DisplayListAscendingById ==
    LET types   == activity_types.types
        list    == activity_types_list(activity_types)
        options == activity_options(activity_types, activities, active_date)
    IN  /\ Len(list) = Cardinality(DOMAIN types)
        /\ Len(options) = Len(list)
        /\ \A k \in DOMAIN types : \E i \in 1..Len(list) : list[i] = types[k]
        /\ \A i \in 1..Len(list) :
             list[i].id \in DOMAIN types /\ list[i] = types[list[i].id]
        /\ \A i, j \in 1..Len(list) : i < j => list[i].id < list[j].id
        /\ \A i \in 1..Len(options) : options[i].activity_type = list[i]

\* C3 witness: after creates and a delete the Registry holds the ids 0, 2
\* and 3, and a rename has just given type 2 the name "q".
DisplayListAfterRename ==
    /\ pc = "renamed"
    /\ DOMAIN activity_types.types = {0, 2, 3}
    /\ activity_types.types[2].name = Name_q

\* C4: the two files are written only by the save-and-quit action: a run
\* that ends in any other way (quit without saving) leaves both files as
\* they were.
QuitWithoutSavingWritesNothing ==
    [][(running /\ ~running' /\ ~SaveAndQuit)
         => (types_file' = types_file /\ activities_file' = activities_file)]_vars

\* C5: when the save-and-quit key is handled in Default state, running is
\* false afterwards and, the saves done (a save that fails is fatal), the
\* Registry document on disk is the Registry in memory and the Log document
\* on disk is the Log in memory, as they were at that moment.
SaveAndQuitCommitsBothStores ==
    [][SaveAndQuit =>
         /\ ~running'
         /\ pc' \in {"done", "panicked"}
         /\ activity_types' = activity_types
         /\ activities' = activities
         /\ pc' = "done" =>
              /\ types_file'.exists /\ types_file'.valid
              /\ from_reader_types(types_file'.doc) = activity_types
              /\ activities_file'.exists /\ activities_file'.valid
              /\ from_reader_activities(activities_file'.doc) = activities]_vars

\* C5 witness: the session has ended by save-and-quit and the Log on disk
\* holds a record made in the session (on the day before today, which no
\* file held a record of).
SavedSessionRecord ==
    /\ pc = "done"
    /\ ~running
    /\ activities_file.valid
    /\ from_reader_activities(activities_file.doc) = activities
    /\ from_reader_types(types_file.doc) = activity_types
    /\ \E t \in DOMAIN activity_types.types : HasRecord(activities, t, Today - 1)

\* C6: load after save returns the Registry and the Log that were saved,
\* with no record deduplicated, reordered or dropped.
SaveThenLoadIsIdentity ==
    [][FileLoad =>
         /\ pc' = "loaded"
         /\ activity_types' = activity_types
         /\ activities' = activities]_vars

\* C6 witness: a Log with a duplicate record of an id no Registry has, and
\* an empty day, has been saved and loaded.
LoadedLegacyLog ==
    /\ pc = "loaded"
    /\ Today \in DOMAIN activities.days
    /\ activities.days[Today] = <<Activity_new(12, Today), Activity_new(12, Today)>>
    /\ Today + 1 \in DOMAIN activities.days
    /\ activities.days[Today + 1] = <<>>

\* C7: load returns the empty default exactly when the file is absent; a
\* file that exists is loaded as the document it holds, or the load is
\* fatal and no session is constructed.
LoadDefaultOnlyWhenAbsent ==
    pc = "constructed" =>
        /\ ~types_file.exists => activity_types = ActivityTypesStore_default
        /\ types_file.exists =>
             /\ types_file.valid
             /\ activity_types = from_reader_types(types_file.doc)
        /\ ~activities_file.exists => activities = ActivitiesStore_default
        /\ activities_file.exists =>
             /\ activities_file.valid
             /\ activities = from_reader_activities(activities_file.doc)

\* C8: running becomes false only by the save-and-quit key in Default state
\* or by Accept (Enter on the right button) in a confirmation popup whose
\* pending action is the quit without saving.
LoopEndsOnlyByQuit ==
    [][(running /\ ~running') =>
         \/ /\ state.kind = "Default"
            /\ SaveAndQuit
         \/ /\ state.kind = "ConfirmationPopup"
            /\ state.action = SaveWithoutQuitting
            /\ state.state.cursor_position = "RightButton"
            /\ state' = Default]_vars

\* C8 witness: the loop has ended and no file was ever written: the quit
\* without saving was confirmed.
QuitWithoutSavingDone ==
    /\ pc = "done"
    /\ ~running
    /\ ~types_file.exists
    /\ ~activities_file.exists

\* C9: the toggle in Default state with selected type t (the type at the
\* selected index of the ascending list) and active date d flips the
\* completion of (t, d) and of nothing else; the Registry, the selector, the
\* active date, the session state, running and both files are unchanged.
ToggleFlipsOnlySelected ==
    [][(ToggleSelectedActivity /\ IsSome(activity_selector_state.selected_index)) =>
         LET t == SortedSeq(DOMAIN activity_types.types)[
                      Unwrap(activity_selector_state.selected_index) + 1]
             d == active_date
             ids == DOMAIN activity_types.types
                      \cup LoggedIds(activities) \cup LoggedIds(activities')
             dates == DOMAIN activities.days \cup DOMAIN activities'.days \cup {d}
         IN  /\ HasRecord(activities', t, d) = ~HasRecord(activities, t, d)
             /\ \A t2 \in ids, d2 \in dates :
                  <<t2, d2>> # <<t, d>> =>
                      HasRecord(activities', t2, d2) = HasRecord(activities, t2, d2)
             /\ UNCHANGED <<activity_types, activity_selector_state, active_date,
                            state, running, types_file, activities_file>>]_vars

\* C9 witness: a record of type 0 for today, loaded from the file, has been
\* toggled off in the session.
ToggledOffLoadedRecord ==
    /\ pc = "loop"
    /\ state.kind = "Default"
    /\ activities_file.valid
    /\ activities_file.mode = "rw"
    /\ HasRecord(from_reader_activities(activities_file.doc), 0, Today)
    /\ ~HasRecord(activities, 0, Today)

\* C10: in every Default state with a selection, two successive toggles
\* (same selection, same active date) bring the completion of the selected
\* type on the active date back to what it was, legacy duplicates included.
ToggleTwiceRestoresCompletion ==
    (pc = "loop" /\ state.kind = "Default") =>
        LET o1 == selected_activity_option
            r1 == toggle_option(activities, o1, active_date)
            o2 == selected_option(activity_types, r1.activities,
                                  activity_selector_state, active_date)
            r2 == toggle_option(r1.activities, o2, active_date)
        IN  IsSome(o1) =>
              LET t == Unwrap(o1).activity_type.id
              IN  /\ ~r1.panic
                  /\ ~r2.panic
                  /\ HasRecord(r1.activities, t, active_date)
                       = ~HasRecord(activities, t, active_date)
                  /\ HasRecord(r2.activities, t, active_date)
                       = HasRecord(activities, t, active_date)

\* C10 witness: the file held two records of type 0 for today before the
\* record of type 1; after two toggles of type 0 the day holds the record of
\* type 1 and then one record of type 0.
ToggledLegacyDuplicatesTwice ==
    /\ pc = "loop"
    /\ activities_file = ActivitiesFile(Log2)
    /\ Today \in DOMAIN activities.days
    /\ activities.days[Today] = <<Activity_new(1, Today), Activity_new(0, Today)>>

\* No two records of the Log have the same (type id, date).
NoDuplicateRecords(store) ==
    \A d \in DOMAIN store.days :
        \A i, j \in 1..Len(store.days[d]) :
            i # j => store.days[d][i].activity_id # store.days[d][j].activity_id

\* C11: the UI never produces duplicate records: from a state of the session
\* whose Log holds at most one record for each (type id, date), every event
\* leads to a Log that holds at most one for each; so a Log loaded without
\* duplicates never gets one.
UiNeverDuplicatesRecords ==
    [][(pc = "loop" /\ NoDuplicateRecords(activities))
          => NoDuplicateRecords(activities')]_vars

\* C11 witness: in a session that started from a Log without duplicates, the
\* UI has logged one record today and one on the day before.
LoggedTwoDaysWithoutDuplicates ==
    /\ pc = "loop"
    /\ activities_file = ActivitiesFile(Log0)
    /\ Today \in DOMAIN activities.days
    /\ Len(activities.days[Today]) = 1
    /\ Today - 1 \in DOMAIN activities.days
    /\ Len(activities.days[Today - 1]) = 1
    /\ NoDuplicateRecords(activities)

\* C12: remove(record) deletes every entry of record.date with record's type
\* id, keeps the entries of every other type id on that day in their order
\* (the k-th entry afterwards is the k-th of the entries kept), and leaves
\* every other day as it was.
RemoveDeletesAllOfTypeOnDay ==
    [][\A id \in FileIds, date \in {Today, Today + 1} :
         (LogRemove(id, date) /\ date \in DOMAIN activities.days) =>
            LET old  == activities.days[date]
                new  == activities'.days[date]
                keep == {i \in 1..Len(old) : old[i].activity_id # id}
            IN  /\ pc' = "removed"
                /\ DOMAIN activities'.days = DOMAIN activities.days
                /\ \A d \in DOMAIN activities.days \ {date} :
                     activities'.days[d] = activities.days[d]
                /\ Len(new) = Cardinality(keep)
                /\ \A k \in 1..Len(new) :
                     new[k] = old[CHOOSE i \in keep :
                                    Cardinality({j \in keep : j < i}) = k - 1]]_vars

\* C12 witness: three records were added, all today, and one remove has left
\* the single record of type 12: two records of one other type were removed
\* at once.
RemovedDuplicatesAtOnce ==
    /\ pc = "removed"
    /\ events = 3
    /\ DOMAIN activities.days = {Today}
    /\ activities.days[Today] = <<Activity_new(12, Today)>>

\* C13: the records logged for a type deleted in the session (a type of the
\* Registry file that the Registry no longer holds) stay in the Log and are
\* hidden: after no event is a selector item marked completed, or a record
\* handed to the heat map, because of such a record.
DeletedTypeRecordsStayHidden ==
    [][LET deleted == DOMAIN load_types(types_file).value.types
                         \ DOMAIN activity_types.types
           options == activity_options(activity_types', activities', active_date')
           sel     == activity_selector_state'.selected_index
           heated  == IF sel = None THEN <<>>
                      ELSE activities_with_type(
                               activities',
                               activity_types_list(activity_types')[Unwrap(sel) + 1])
       IN  \A t \in deleted :
             \A d \in DOMAIN activities.days :
                HasRecord(activities, t, d) =>
                   /\ HasRecord(activities', t, d)
                   /\ ~(/\ d = active_date'
                        /\ \E i \in 1..Len(options) :
                             /\ options[i].activity_type.id = t
                             /\ options[i].completed)
                   /\ ~(\E i \in 1..Len(heated) :
                          heated[i] = Activity_new(t, d))]_vars

\* C14: with N > 0 items, 3 to a row: right moves index i to i + 1 and from
\* the last to 0, left to i - 1 and from 0 to the last; down moves to i + 3
\* only if i + 3 < N and up to i - 3 only if i >= 3, else the index stays;
\* no motion changes activity_count (and with no item nothing is selected).
SelectorMotions ==
    [][LET N == activity_selector_state.activity_count
           s == activity_selector_state.selected_index
           t == activity_selector_state'.selected_index
       IN  /\ activity_selector_state'.activity_count = N
           /\ N = 0 => (s = None /\ t = None)
           /\ N > 0 =>
                LET i == Unwrap(s)
                IN  /\ IsSome(s) /\ IsSome(t)
                    /\ pc' = "right" => Unwrap(t) = (IF i = N - 1 THEN 0 ELSE i + 1)
                    /\ pc' = "left" => Unwrap(t) = (IF i = 0 THEN N - 1 ELSE i - 1)
                    /\ pc' = "down" => Unwrap(t) = (IF i + 3 < N THEN i + 3 ELSE i)
                    /\ pc' = "up" => Unwrap(t) = (IF i >= 3 THEN i - 3 ELSE i)]_vars

\* C14 witness: with 7 items, right has just wrapped from index 6 to 0.
SelectorWrappedRight ==
    /\ pc = "right"
    /\ activity_selector_state.activity_count = 7
    /\ activity_selector_state.selected_index = Some(0)

\* C15: when the creator popup emits Create(name), exactly one type, named
\* name, is added to the Registry and every existing type is as it was; the
\* selector is a fresh one, its count the new number of types and its
\* selected_index 0; the session is in Default state; the Log is unchanged.
CreateAddsOneTypeAndResetsSelector ==
    [][ActivityPopupCreate =>
         LET old   == activity_types.types
             new   == activity_types'.types
             added == DOMAIN new \ DOMAIN old
         IN  /\ pc' = "loop"
             /\ state.state.popup_type = "Create"
             /\ Cardinality(added) = 1
             /\ \A id \in added :
                  new[id] = [id |-> id, name |-> state.state.text_input]
             /\ DOMAIN old \subseteq DOMAIN new
             /\ \A k \in DOMAIN old : new[k] = old[k]
             /\ activity_selector_state' =
                  [activity_count |-> Cardinality(DOMAIN new), selected_index |-> Some(0)]
             /\ state' = Default
             /\ activities' = activities]_vars

\* C15 witness: the session started with the one type of the file and the
\* text "q" typed in the creator popup has become the name of a second type.
CreatedTypeFromPopup ==
    /\ pc = "loop"
    /\ state = Default
    /\ refresh
    /\ types_file = TypesFile(Registry1)
    /\ DOMAIN activity_types.types = {0, 1}
    /\ activity_types.types[1] = [id |-> 1, name |-> Name_q]
    /\ activity_selector_state = [activity_count |-> 2, selected_index |-> Some(0)]

\* C16: when the editor popup, opened for the selected type of id i, emits
\* Edit(i, name), exactly that type is renamed to name; the set of ids, every
\* other type, the Log and the selector's count and selected_index are
\* unchanged and the session is in Default state.
EditRenamesOnlySelectedType ==
    [][ActivityPopupEdit =>
         LET old == activity_types.types
             new == activity_types'.types
             i   == Unwrap(state.state.activity_id)
         IN  /\ pc' = "loop"
             /\ state.state.popup_type = "Edit"
             /\ IsSome(selected_activity_option)
             /\ Unwrap(selected_activity_option).activity_type.id = i
             /\ DOMAIN new = DOMAIN old
             /\ i \in DOMAIN old
             /\ new[i] = [id |-> i, name |-> state.state.text_input]
             /\ \A k \in DOMAIN old \ {i} : new[k] = old[k]
             /\ state' = Default
             /\ activities' = activities
             /\ activity_selector_state' = activity_selector_state]_vars

\* C16 witness: the type "a" of the file has been renamed in the editor to
\* the empty name (its text was deleted).
RenamedTypeFromPopup ==
    /\ pc = "loop"
    /\ state = Default
    /\ refresh
    /\ types_file = TypesFile(Registry1)
    /\ DOMAIN activity_types.types = {0}
    /\ activity_types.types[0] = [id |-> 0, name |-> <<>>]

\* C17: the delete key in Default state with a selection opens the
\* confirmation for DeleteActivity(id), id being the id of the type at the
\* selected index of the ascending list; on Accept exactly that type leaves
\* the Registry, every other type and the Log are unchanged, the selector is
\* rebuilt with the new count (index 0 if a type remains, else None) and the
\* session is in Default state.
DeleteRemovesOnlySelectedType ==
    [][/\ (DeleteSelectedActivity /\ IsSome(activity_selector_state.selected_index)) =>
            /\ pc' = "loop"
            /\ state'.kind = "ConfirmationPopup"
            /\ state'.action =
                 DeleteActivity(SortedSeq(DOMAIN activity_types.types)[
                                    Unwrap(activity_selector_state.selected_index) + 1])
            /\ state'.state.cursor_position = "LeftButton"
            /\ UNCHANGED <<activity_types, activities, activity_selector_state>>
       /\ ConfirmationAcceptDelete =>
            LET old == activity_types.types
                new == activity_types'.types
                i   == state.action.id
                n   == Cardinality(DOMAIN new)
            IN  /\ pc' = "loop"
                /\ Unwrap(selected_activity_option).activity_type.id = i
                /\ i \in DOMAIN old
                /\ DOMAIN new = DOMAIN old \ {i}
                /\ \A k \in DOMAIN new : new[k] = old[k]
                /\ \A k \in 1..Len(activity_types_list(activity_types')) :
                     activity_types_list(activity_types')[k].id # i
                /\ activities' = activities
                /\ activity_selector_state' =
                     [activity_count |-> n,
                      selected_index |-> IF n > 0 THEN Some(0) ELSE None]
                /\ state' = Default]_vars

\* C17 witness: of the two types of the file, type 1 (at index 1) has been
\* deleted; its record of the day after today is still in the Log.
DeletedSecondTypeKeepsRecords ==
    /\ pc = "loop"
    /\ state = Default
    /\ types_file = TypesFile(Registry2)
    /\ activities_file = ActivitiesFile(Log3)
    /\ DOMAIN activity_types.types = {0}
    /\ HasRecord(activities, 1, Today + 1)
    /\ activity_selector_state = [activity_count |-> 1, selected_index |-> Some(0)]

\* C18: cancelling a popup mutates nothing: from the opening of a popup to
\* its Exit or Decline, whatever was typed in between, no step changes the
\* Registry, the Log, the selector state, the active date or running, and
\* the Exit or Decline step leaves the session in Default state.
CancelMutatesNothing ==
    [][(ActivityPopupKey \/ ConfirmationKey \/ ActivityPopupExit \/ ConfirmationDecline) =>
         /\ pc' = "loop"
         /\ UNCHANGED <<activity_types, activities, activity_selector_state,
                        active_date, running>>
         /\ (ActivityPopupExit \/ ConfirmationDecline) => state' = Default]_vars

\* C18 witness: three events into a session with the type of the file
\* selected, a popup has been opened, its Exit button reached and pressed
\* (refresh is set): the Registry and the Log are those of the files.
ExitedPopupUnchanged ==
    /\ pc = "loop"
    /\ state = Default
    /\ refresh
    /\ events = 3
    /\ types_file = TypesFile(Registry1)
    /\ activities_file = ActivitiesFile(Log2)
    /\ activity_types = Registry1
    /\ activities = Log2

\* C19: an open popup consumes every input event: while it emits no action,
\* each event (the keys of the Default key map included) leaves the Registry,
\* the Log, the selector state, the active date, running and both files
\* unchanged, and the session stays in the same popup variant (with the same
\* pending action).
PopupConsumesInput ==
    [][(pc = "loop" /\ state.kind # "Default" /\ (ActivityPopupKey \/ ConfirmationKey)) =>
         /\ pc' = "loop"
         /\ state'.kind = state.kind
         /\ state.kind = "ConfirmationPopup" => state'.action = state.action
         /\ UNCHANGED <<activity_types, activities, activity_selector_state,
                        active_date, running, types_file, activities_file>>]_vars

\* C19 witness: the save-and-quit key was typed into the creator popup: it
\* is the popup's text, the loop runs and no file was written.
SaveKeyTypedIntoPopup ==
    /\ pc = "loop"
    /\ running
    /\ state.kind = "ActivityPopup"
    /\ state.state.text_input = <<"s">>
    /\ ~types_file.exists
    /\ ~activities_file.exists

\* C20: in Default state with an empty Registry (no selection) the toggle,
\* edit, delete and the four selector-move keys leave the Registry, the Log,
\* the selector state and the session state (Default, no popup) unchanged and
\* raise no error.
NoSelectionKeysIgnored ==
    [][(/\ TypeCount = 0
        /\ \/ ToggleSelectedActivity \/ EditSelectedActivity \/ DeleteSelectedActivity
           \/ ActivityLeft \/ ActivityRight \/ ActivityUp \/ ActivityDown) =>
         /\ pc' = "loop"
         /\ state = Default
         /\ activity_selector_state.selected_index = None
         /\ UNCHANGED <<activity_types, activities, activity_selector_state, state>>]_vars

\* C20 witness: the first key of a session with an empty Registry was the
\* edit or the delete key (refresh is set): no popup is open.
EditOrDeleteKeyWithoutSelection ==
    /\ pc = "loop"
    /\ state = Default
    /\ TypeCount = 0
    /\ refresh
    /\ events = 1

\* C21: in the editor popup a Down key on TextInput moves the focus to the
\* button that was focused most recently since the popup opened, and to the
\* cancel button (ExitButton) when no button has been focused yet.
DownReturnsToLastFocusedButton ==
    [][(/\ ActivityPopupRead
        /\ state.state.cursor_position = "TextInput"
        /\ keys'[Len(keys')].event = <<"Down">>) =>
         LET buttons == {i \in DOMAIN keys : keys[i].cursor # "TextInput"}
         IN  state'.state.cursor_position =
               IF buttons = {} THEN "ExitButton"
               ELSE keys[CHOOSE i \in buttons : \A j \in buttons : j <= i].cursor]_vars

\* C22: in the editor popup the text buffer changes only while the focus is
\* on TextInput, where a character is appended and Backspace removes the
\* last character; on a button every key leaves the text unchanged.
TextEditedOnlyOnTextInput ==
    [][ActivityPopupRead =>
         LET event == keys'[Len(keys')].event
             text  == state.state.text_input
         IN  state'.state.text_input =
               IF state.state.cursor_position # "TextInput" THEN text
               ELSE IF Len(event) = 2 THEN Append(text, event[2])
               ELSE IF event = <<"Backspace">> THEN StringPop(text)
               ELSE text]_vars

\* C23: in the editor popup Enter on the primary button returns Create(text)
\* in Create mode and Edit(id, text) in Edit mode, text being the buffer and
\* id the id the popup was opened for (activity_id is present exactly in
\* Edit mode, so returning Edit never fails); Enter on the cancel button
\* returns Exit; Enter on TextInput returns no action and changes neither
\* the focus nor the text.
EnterEmitsActionOfFocus ==
    [][ActivityPopupRead =>
         /\ IsSome(state.state.activity_id) <=> state.state.popup_type = "Edit"
         /\ state.state.popup_type = "Edit" => state.state.activity_id = Some(1)
         /\ keys'[Len(keys')].event = <<"Enter">> =>
              LET st     == state.state
                  action == keys'[Len(keys')].action
              IN  /\ pc' # "panicked"
                  /\ st.cursor_position = "CreateOrEditButton" /\ st.popup_type = "Create"
                       => action = [tag |-> "CreateActivity", title |-> st.text_input]
                  /\ st.cursor_position = "CreateOrEditButton" /\ st.popup_type = "Edit"
                       => action = [tag |-> "EditActivity", id |-> 1,
                                    title |-> st.text_input]
                  /\ st.cursor_position = "ExitButton" => action = [tag |-> "Exit"]
                  /\ st.cursor_position = "TextInput"
                       => action = NoAction /\ state' = state]_vars

\* C23 witness: the editor opened for type 1 returned Edit(1, text) with a
\* text that was changed in the popup.
EditorReturnedEdit ==
    /\ pc = "closed"
    /\ state.kind = "ActivityPopup"
    /\ keys[Len(keys)].action = [tag |-> "EditActivity", id |-> 1, title |-> <<"q", "a">>]

\* C24: in the confirmation popup the focus is always LeftButton or
\* RightButton; Right moves it to RightButton and Left to LeftButton; Enter
\* returns Decline on LeftButton and Accept on RightButton; every other key
\* returns no action and leaves the focus unchanged.
ConfirmationFocusAndAnswer ==
    [][ConfirmationPopupRead =>
         LET event  == keys'[Len(keys')].event
             action == keys'[Len(keys')].action
             focus  == state.state.cursor_position
             after  == state'.state.cursor_position
         IN  /\ focus \in {"LeftButton", "RightButton"}
             /\ after \in {"LeftButton", "RightButton"}
             /\ event = <<"Right">> => after = "RightButton" /\ action = NoAction
             /\ event = <<"Left">> => after = "LeftButton" /\ action = NoAction
             /\ event = <<"Enter">> =>
                  /\ after = focus
                  /\ action = IF focus = "LeftButton" THEN [tag |-> "Decline"]
                              ELSE [tag |-> "Accept"]
             /\ event \notin {<<"Right">>, <<"Left">>, <<"Enter">>} =>
                  after = focus /\ action = NoAction]_vars

\* C24 witness: the confirmation of a delete returned Accept after Right was
\* pressed twice.
ConfirmationAcceptedAfterRightTwice ==
    /\ pc = "closed"
    /\ state.kind = "ConfirmationPopup"
    /\ state.action = DeleteActivity(1)
    /\ Len(keys) = 3
    /\ keys[1].event = <<"Right">>
    /\ keys[2].event = <<"Right">>
    /\ keys[3].action = [tag |-> "Accept"]

\* C25: heat-map geometry round trip: for every date d of [start, end] and
\* every origin of the area, position_to_date(date_to_position(d)) = d, so
\* the assertion inside date_to_position never fails.
GeometryRoundTrip ==
    pc \in {"rendered", "panicked"} =>
      \A d \in heatmap.date_range[1]..heatmap.date_range[2] :
         LET p == date_to_position(heatmap, d, buffer.area)
         IN  /\ ~p.panic
             /\ position_to_date(heatmap, p.x, p.y, buffer.area) = d

\* C26: a month border is drawn only between two columns whose first-row
\* dates lie in different months and are both in [start, end]; none is drawn
\* between two columns whose first-row dates are in the same month, and none
\* after the last column.
BordersOnlyBetweenMonthStartColumns ==
    pc = "rendered" =>
      \A b \in buffer.borders :
         LET left  == position_to_date(heatmap, b.x - 1, buffer.area.y + 1, buffer.area)
             right == position_to_date(heatmap, b.x + 1, buffer.area.y + 1, buffer.area)
         IN  /\ CivilFromDays(left).month # CivilFromDays(right).month
             /\ left >= heatmap.date_range[1] /\ left <= heatmap.date_range[2]
             /\ right >= heatmap.date_range[1] /\ right <= heatmap.date_range[2]

\* C26 (amended): a month border is drawn at (x+1, y), (x, y) being the cell
\* of a date d of the range, exactly when the date of the same row one
\* column to the right, d + rows, lies in another month than d and is not
\* after the end of the range; it is the top marker in the first row and the
\* vertical rule elsewhere.
BorderWhereRowNeighborChangesMonth ==
    pc = "rendered" =>
      buffer.borders =
        {[x |-> date_to_position(heatmap, d, buffer.area).x + 1,
          y |-> date_to_position(heatmap, d, buffer.area).y,
          fg |-> "Gray",
          symbol |-> IF (d - heatmap.date_range[1]) % heatmap.rows = 0
                     THEN "TOP" ELSE "VERTICAL"] :
            d \in {e \in heatmap.date_range[1]..heatmap.date_range[2] :
                     /\ CivilFromDays(e).month # CivilFromDays(e + heatmap.rows).month
                     /\ e + heatmap.rows <= heatmap.date_range[2]}}

\* C26 witness: the year 2024 in seven rows at the origin: 26 January (fifth
\* row of the column of 22 January) has 2 February to its right, so a rule
\* stands between the columns of 22 and 29 January.
BorderBesideJanuary26 ==
    /\ pc = "rendered"
    /\ heatmap.date_range = HeatMapDateRange_current_year
    /\ heatmap.rows = 7
    /\ buffer.area.x = 0 /\ buffer.area.y = 0
    /\ [x |-> 7, y |-> 5, fg |-> "Gray", symbol |-> "VERTICAL"] \in buffer.borders

\* C30: for every date d of [start, end], k = d - start, R rows and every
\* origin of the area, date_to_position(d) is x = area.x + 2 * (k div R),
\* y = area.y + 1 + (k mod R).
PositionFormula ==
    pc \in {"rendered", "panicked"} =>
      \A d \in heatmap.date_range[1]..heatmap.date_range[2] :
         LET p == date_to_position(heatmap, d, buffer.area)
             k == d - heatmap.date_range[1]
         IN  /\ p.x = buffer.area.x + 2 * (k \div heatmap.rows)
             /\ p.y = buffer.area.y + 1 + (k % heatmap.rows)

\* C27: the heat-map shows the completions of the highlighted type only: for
\* every date d of the displayed range the cell of d has the high color
\* exactly when the Log holds a record of the selected type on d, and the
\* low color otherwise (also without a selection); records of other types
\* and orphan records heat no cell.
HeatMapShowsSelectedTypeOnly ==
    (pc = "drawn" /\ buffer.cells # {}) =>
      LET area == (CHOOSE w \in buffer.widgets : w.widget = "heatmap").area
      IN  \A d \in heatmap.date_range[1]..heatmap.date_range[2] :
             LET p == date_to_position(heatmap, d, area)
                 heated == /\ IsSome(selected_activity_option)
                           /\ HasRecord(activities,
                                        Unwrap(selected_activity_option).activity_type.id, d)
             IN  /\ \E c \in buffer.cells : c.x = p.x /\ c.y = p.y
                 /\ \A c \in buffer.cells :
                      (c.x = p.x /\ c.y = p.y) =>
                         c.fg = IF heated THEN "Green" ELSE "Black"

\* C27 witness: type 1 is selected in a Log that holds a record of type 1
\* and an orphan record on the day after today, and an empty day before
\* today: one cell is green.
OnlyTomorrowIsHeated ==
    /\ pc = "drawn"
    /\ IsSome(selected_activity_option)
    /\ Unwrap(selected_activity_option).activity_type.id = 1
    /\ HasRecord(activities, 5, Today + 1)
    /\ Today - 1 \in DOMAIN activities.days
    /\ Cardinality({c \in buffer.cells : c.fg = "Green"}) = 1

\* C28: display-size gating: when the frame is too small for the selector,
\* the heat-map and the help panel (its height below the sum of their
\* heights, or its width below the width of the heat-map), the frame holds
\* only the notice, inside the frame rectangle, and none of the three
\* widgets or a popup; the loop then reads the next event as usual.
SmallFrameShowsOnlyNotice ==
    pc \in {"drawn", "panicked"} =>
      LET size == terminal.size
          needed == ActivitySelector_height(Len(activity_selector_options))
                      + HeatMap_height(heatmap) + 10
      IN  (size.height < needed \/ size.width < HeatMap_width(heatmap)) =>
            /\ pc = "drawn"
            /\ \E w \in buffer.widgets : w.widget = "notice"
            /\ \A w \in buffer.widgets :
                 /\ w.widget = "notice"
                 /\ w.area.x >= size.x /\ w.area.x + w.area.width <= size.x + size.width
                 /\ w.area.y >= size.y /\ w.area.y + w.area.height <= size.y + size.height
            /\ buffer.cells = {} /\ buffer.borders = {} /\ buffer.labels = {}

\* C29: raw mode and the alternate screen, acquired at startup, are released
\* on every exit path of the program: the normal end of the loop, an I/O
\* error returned by the session or by drawing, and a panic (a load or a
\* save that fails).
TerminalModesReleasedOnExit ==
    pc \in {"exit", "io_error", "panicked"} =>
      ~terminal.raw /\ ~terminal.alternate

\* C31: for a range of D = end - start days in R rows the heat-map reports
\* the width 2 * ceil((D + 1) / R) and the height R + 1, so that whenever the
\* size assertions of render pass, every day cell, month border and month
\* label (three characters) it writes lies inside the area it was given.
ReportedSizeHoldsWhatIsDrawn ==
    pc = "rendered" =>
      LET D == heatmap.date_range[2] - heatmap.date_range[1]
          R == heatmap.rows
          area == buffer.area
          Inside(x, y, width) ==
              /\ x >= area.x /\ x + width <= area.x + area.width
              /\ y >= area.y /\ y < area.y + area.height
      IN  /\ HeatMap_width(heatmap) = 2 * ((D + 1 + R - 1) \div R)
          /\ HeatMap_height(heatmap) = R + 1
          /\ \A c \in buffer.cells \cup buffer.borders : Inside(c.x, c.y, 1)
          /\ \A l \in buffer.labels : Inside(l.x, l.y, 3)

\* C32: month labels: walking the columns of the range from left to right,
\* a label is written on the label row exactly at the x of each column whose
\* starting date falls in another month than the last labeled one; the later
\* columns starting in that month have none, so each month of a one-year
\* range is labeled exactly once and the labels stand in calendar order from
\* left to right.
MonthLabelsAtFirstColumnOfMonth ==
    pc = "rendered" =>
      LET start   == heatmap.date_range[1]
          dates   == start..heatmap.date_range[2]
          columns == {d \in dates : (d - start) % heatmap.rows = 0}
          X(d)    == date_to_position(heatmap, d, buffer.area).x
          Labeled(d) == \E l \in buffer.labels :
                           /\ l.x = X(d) /\ l.y = buffer.area.y
                           /\ l.month = CivilFromDays(d).month
      IN  /\ \A l \in buffer.labels : \E w \in columns : l.x = X(w) /\ Labeled(w)
          /\ \A w \in columns :
               LET before == {v \in columns : v < w /\ Labeled(v)}
               IN  Labeled(w) <=>
                     \/ before = {}
                     \/ CivilFromDays(CHOOSE v \in before : \A u \in before : u <= v).month
                          # CivilFromDays(w).month
          /\ heatmap.date_range \in {<<Date(y, 1, 1), Date(y, 12, 31)>> : y \in {2023, 2024}} =>
               /\ \A d \in dates :
                    Cardinality({l \in buffer.labels :
                                    l.month = CivilFromDays(d).month}) = 1
               /\ \A l1, l2 \in buffer.labels : l1.x < l2.x => l1.month < l2.month

\* C33: every pass of the loop whose handler opens a popup, closes a popup
\* (editor Create, Edit or Exit, confirmation Accept or Decline) or changes
\* the number of activity types (create, confirmed delete) leaves `refresh`
\* set, so that the next frame begins with a cleared terminal.
RefreshSetOnPopupOrTypeCountChange ==
    [][(/\ pc = "loop"
        /\ pc' = "loop"
        /\ \/ state.kind = "Default" /\ state'.kind # "Default"
           \/ state.kind # "Default" /\ state'.kind = "Default"
           \/ Len(activity_types_list(activity_types'))
                # Len(activity_types_list(activity_types)))
       => refresh']_vars

\* C34: day navigation in Default state changes the active date and nothing
\* else: the previous-day key moves it back by one day, the next-day key
\* forward by one day, so that each undoes the other, and none of previous,
\* next and today changes the Registry, the Log, the selector state (count
\* and selected index), the session state or running.
DayNavigationMovesOnlyActiveDate ==
    [][(pc = "loop" /\ pc' = "loop"
        /\ (GotoPreviousDay \/ GotoNextDay \/ GotoToday)) =>
         /\ GotoPreviousDay =>
              /\ active_date' = active_date - 1
              /\ succ_opt(active_date') = Some(active_date)
         /\ GotoNextDay =>
              /\ active_date' = active_date + 1
              /\ pred_opt(active_date') = Some(active_date)
         /\ GotoToday => active_date' = Today
         /\ state' = Default
         /\ UNCHANGED <<activity_types, activities, activity_selector_state,
                        state, running>>]_vars

\* C34 witness: with the second activity type selected, the previous-day key
\* was pressed twice: the active date is two days back, the selection stayed.
TwoDaysBackWithSelectionKept ==
    /\ pc = "loop"
    /\ state = Default
    /\ active_date = Today - 2
    /\ activity_selector_state.selected_index = Some(1)

\* C35: remove_activity is only called for a type and a date whose date has
\* a sequence in the Log: the toggle calls it only when the selected type is
\* completed on the active date, so the unwrap of the day's sequence fails
\* in no reachable state of the session.
ToggleNeverRemovesFromMissingDay ==
    (pc = "loop" /\ state.kind = "Default") =>
        LET option == selected_activity_option
        IN  /\ ~toggle_selected.panic
            /\ (IsSome(option) /\ Unwrap(option).completed) =>
                 /\ activity_completed(activities, active_date,
                                       Unwrap(option).activity_type)
                 /\ ~remove_activity_panics(
                        activities,
                        Activity_new(Unwrap(option).activity_type.id, active_date))

\* C35 witness: starting without a Log file, a type was toggled on and off
\* again: remove_activity ran and left the day with an empty sequence.
ToggledOnThenOff ==
    /\ pc = "loop"
    /\ state.kind = "Default"
    /\ ~activities_file.exists
    /\ active_date \in DOMAIN activities.days
    /\ activities.days[active_date] = <<>>

\* C36: every popup can be left without effect: from every reachable state
\* of the editor popup the keys Down, Left, Enter end with the action Exit,
\* from every reachable state of the confirmation popup the keys Left, Enter
\* end with Decline, no pass in between fails, and the Exit or Decline step
\* puts the session in Default state with the Registry, the Log and running
\* unchanged.
EscapeKeysAlwaysCancel ==
    /\ [](pc = "loop" /\ state.kind = "ActivityPopup" =>
            LET r1 == ActivityPopup_handle_event(<<"Down">>, state.state)
                r2 == ActivityPopup_handle_event(<<"Left">>, r1.state)
                r3 == ActivityPopup_handle_event(<<"Enter">>, r2.state)
            IN  /\ ~heatmap_values_panics
                /\ r1.action = NoAction /\ ~r1.panic
                /\ r2.action = NoAction /\ ~r2.panic
                /\ r3.action = [tag |-> "Exit"] /\ ~r3.panic)
    /\ [](pc = "loop" /\ state.kind = "ConfirmationPopup" =>
            LET r1 == ConfirmationPopup_handle_event(<<"Left">>, state.state)
                r2 == ConfirmationPopup_handle_event(<<"Enter">>, r1.state)
            IN  /\ ~heatmap_values_panics
                /\ r1.action = NoAction
                /\ r2.action = [tag |-> "Decline"])
    /\ [][(ActivityPopupExit \/ ConfirmationDecline) =>
            /\ pc' = "loop"
            /\ state' = Default
            /\ UNCHANGED <<activity_types, activities, running>>]_vars

\* C36 witness: the editor holds a typed name and the focus is on its create
\* button, reached from the text input: Down keeps the focus there, Left
\* moves it to the exit button and Enter then exits.
CreateButtonFocusedWithText ==
    /\ pc = "loop"
    /\ state.kind = "ActivityPopup"
    /\ state.state.cursor_position = "CreateOrEditButton"
    /\ state.state.text_input # <<>>
    /\ ActivityPopup_handle_event(<<"Down">>, state.state).state.cursor_position
         = "CreateOrEditButton"
    /\ ActivityPopup_handle_event(<<"Enter">>,
           ActivityPopup_handle_event(<<"Left">>,
               ActivityPopup_handle_event(<<"Down">>, state.state).state).state).action
         = [tag |-> "Exit"]

\* C37: every confirmation popup opens with the focus on the cancel (left)
\* button; it answers Accept (the type is deleted, or the session quits
\* without saving) only to an Enter that follows a Right pressed after the
\* opening with no Left between that Right and the Enter; an Enter pressed
\* right after the opening is answered with Decline.
AcceptNeedsRightBeforeEnter ==
    state.kind = "ConfirmationPopup" =>
        /\ keys = <<>> => state.state.cursor_position = "LeftButton"
        /\ \A i \in 1..Len(keys) :
             keys[i].action = [tag |-> "Accept"] =>
               /\ keys[i].event = <<"Enter">>
               /\ \E j \in 1..(i - 1) :
                    /\ keys[j].event = <<"Right">>
                    /\ \A k \in (j + 1)..(i - 1) : keys[k].event # <<"Left">>
        /\ (keys # <<>> /\ keys[1].event = <<"Enter">>) =>
             keys[1].action = [tag |-> "Decline"]

\* C37 witness: the delete confirmation was accepted by Right, Left, Right,
\* Enter: the Left took the first Right back, the second Right stood.
AcceptedAfterRightLeftRight ==
    /\ pc = "closed"
    /\ state.kind = "ConfirmationPopup"
    /\ state.action = DeleteActivity(1)
    /\ Len(keys) = 4
    /\ keys[1].event = <<"Right">>
    /\ keys[2].event = <<"Left">>
    /\ keys[3].event = <<"Right">>
    /\ keys[4] = [event |-> <<"Enter">>, action |-> [tag |-> "Accept"],
                  cursor |-> "RightButton"]

====
